---- MODULE Spec2Model ----
(***************************************************************************)
(* The tree-walking interpreter of interpreter/src/main.rs: the            *)
(* expression tree (Expr), the values (ResultValue), the environment       *)
(* chain (Env) with its Rc<RefCell<..>> binding cells, the builtin table,  *)
(* eval_expr / apply_function, and main.                                   *)
(*                                                                         *)
(* An Env is held by handle: st.scopes[h] is the Env struct (its vars map, *)
(* whether it carries the builtin table, its parent handle; 0 is None) and *)
(* st.cells[c] is the content of one Rc<RefCell<ResultValue>>.  A `&mut    *)
(* Env` is a handle; Env::clone allocates a copy of every Env of the chain *)
(* whose maps hold the same cells (cloning an Rc shares the cell).         *)
(***************************************************************************)
EXTENDS Integers, Sequences, FiniteSets, TLC

\* ---------------------------------------------------------------- Expr
ExprNumber(n) == [k |-> "Number", n |-> n]
ExprString(s) == [k |-> "String", s |-> s]
ExprIdentifier(name) == [k |-> "Identifier", name |-> name]
ExprApplication(args) == [k |-> "Application", args |-> args]
ExprCond(args) == [k |-> "Cond", args |-> args]
ExprBlock(args) == [k |-> "Block", args |-> args]
ExprClause(args) == [k |-> "Clause", args |-> args]
ExprParameters(args) == [k |-> "Parameters", args |-> args]
ExprLambda(args) == [k |-> "Lambda", args |-> args]
ExprLet(name, value, body) == [k |-> "Let", name |-> name, value |-> value, body |-> body]
ExprAssignment(name, value) == [k |-> "Assignment", name |-> name, value |-> value]

\* --------------------------------------------------------- ResultValue
RvNumber(n) == [t |-> "Number", n |-> n]
RvBool(b) == [t |-> "Bool", b |-> b]
RvString(s) == [t |-> "String", s |-> s]
RvFunc(f) == [t |-> "Func", f |-> f]
RvLambda(params, body, env) == [t |-> "Lambda", params |-> params, body |-> body, env |-> env]
RvVec(v) == [t |-> "Vec", v |-> v]

\* Result<ResultValue, String>, with the interpreter state after the call;
\* Panic is the abort of the process by a Rust panic.
Ok(v, st) == [k |-> "Ok", v |-> v, st |-> st]
Err(e, st) == [k |-> "Err", e |-> e, st |-> st]
Panic(e, st) == [k |-> "Panic", p |-> e, st |-> st]

\* ------------------------------------------------------------- Display
RECURSIVE Display(_)
RECURSIVE DisplayElems(_, _)
\* the loop of the Vec arm: every element but the last is followed by ", "
DisplayElems(v, i) ==
  IF i > Len(v) THEN ""
  ELSE IF i = Len(v) THEN Display(v[i])
  ELSE Display(v[i]) \o ", " \o DisplayElems(v, i + 1)

\* the Debug text of a Lambda's parameters and body is kept opaque: it
\* starts with "<lambda " and so is neither "true" nor a builtin's name
Display(val) ==
  CASE val.t = "Number" -> ToString(val.n)
    [] val.t = "Bool" -> IF val.b THEN "true" ELSE "false"
    [] val.t = "String" -> val.s
    [] val.t = "Func" -> "<function>"
    [] val.t = "Lambda" -> "<lambda>"
    [] val.t = "Vec" -> "[" \o DisplayElems(val.v, 1) \o "]"

\* ----------------------------------------------------------------- Env
EmptyVars == [n \in {} |-> 0]

BuiltinNames ==
  {"add", "sub", "mul", "div", "pow", "zero?", "eq", "<", ">", ">=", "<=",
   "print", "abs", "max", "min", "fact", "mod", "wait", "intArray",
   "stringArray", "len", "get", "set", "append", "remove", "rev", "sort",
   "empty?", "head", "tail", "last", "map", "filter", "fold", "sum",
   "product", "median", "mean", "maxArray", "minArray"}

\* Env::new: i = 1, v = 5, x = 10, the builtin table, no parent.  `shared`
\* selects the reference semantics of scopes (Env handles shared instead of
\* cloned); the program itself always runs with shared = FALSE.
EnvNew(shared) ==
  [cells |-> <<RvNumber(1), RvNumber(5), RvNumber(10)>>,
   scopes |-> <<[vars |-> ("i" :> 1) @@ ("v" :> 2) @@ ("x" :> 3),
                builtins |-> TRUE, parent |-> 0]>>,
   out |-> <<>>,
   log |-> <<>>,
   shared |-> shared]

\* Env::new_with_parent: empty vars, empty builtins, the given parent
NewWithParent(parent, st) ==
  [env |-> Len(st.scopes) + 1,
   st |-> [st EXCEPT !.scopes =
             Append(@, [vars |-> EmptyVars, builtins |-> FALSE, parent |-> parent])]]

\* #[derive(Clone)] on Env: the vars map is copied with its Rc cells shared,
\* the builtins map is copied, the boxed parent is cloned recursively
RECURSIVE EnvCloneDeepCells(_, _)
EnvCloneDeepCells(env, st) ==
  LET sc == st.scopes[env]
      names == DOMAIN sc.vars
      p == IF sc.parent = 0 THEN [env |-> 0, st |-> st]
           ELSE EnvCloneDeepCells(sc.parent, st)
      RECURSIVE Copy(_, _, _)
      Copy(todo, vars, cells) ==
        IF todo = {} THEN [vars |-> vars, cells |-> cells]
        ELSE LET n == CHOOSE m \in todo : TRUE
             IN Copy(todo \ {n}, (n :> (Len(cells) + 1)) @@ vars,
                     Append(cells, cells[sc.vars[n]]))
      c == Copy(names, EmptyVars, p.st.cells)
  IN [env |-> Len(p.st.scopes) + 1,
      st |-> [p.st EXCEPT !.cells = c.cells,
                !.scopes = Append(@, [vars |-> c.vars, builtins |-> sc.builtins,
                                      parent |-> p.env])]]

EnvCloneByReference(env, st) == [env |-> env, st |-> st]

RECURSIVE EnvClone(_, _)
EnvClone(env, st) ==
  IF st.shared THEN [env |-> env, st |-> st]
  ELSE
    LET sc == st.scopes[env]
        p == IF sc.parent = 0 THEN [env |-> 0, st |-> st]
             ELSE EnvClone(sc.parent, st)
    IN [env |-> Len(p.st.scopes) + 1,
        st |-> [p.st EXCEPT !.scopes =
                  Append(@, [vars |-> sc.vars, builtins |-> sc.builtins,
                             parent |-> p.env])]]

\* Env::get_vars: own map first, then the parent chain; 0 is None
RECURSIVE GetVarsOutermost(_, _, _)
GetVarsOutermost(scopes, env, name) ==
  IF env = 0 THEN 0
  ELSE LET up == GetVarsOutermost(scopes, scopes[env].parent, name)
       IN IF up # 0 THEN up
          ELSE IF name \in DOMAIN scopes[env].vars THEN scopes[env].vars[name]
          ELSE 0

RECURSIVE GetVars(_, _, _)
GetVars(scopes, env, name) ==
  IF env = 0 THEN 0
  ELSE IF name \in DOMAIN scopes[env].vars THEN scopes[env].vars[name]
  ELSE GetVars(scopes, scopes[env].parent, name)

\* Env::insert_vars: a fresh Rc cell replaces or adds the entry of this Env
InsertVars(env, name, value, st) ==
  LET c == Len(st.cells) + 1
  IN [st EXCEPT !.cells = Append(@, value),
                !.scopes[env].vars = (name :> c) @@ @]

\* Env::update_vars_deref: writes through the cell of the nearest Env that
\* has the name; Err("Variable not found") past the outermost Env
RECURSIVE UpdateVarsDerefInsert(_, _, _, _)
UpdateVarsDerefInsert(env, name, value, st) ==
  IF name \in DOMAIN st.scopes[env].vars
  THEN [ok |-> TRUE, st |-> [st EXCEPT !.cells[st.scopes[env].vars[name]] = value]]
  ELSE IF st.scopes[env].parent # 0
  THEN UpdateVarsDerefInsert(st.scopes[env].parent, name, value, st)
  ELSE [ok |-> TRUE, st |-> InsertVars(env, name, value, st)]

RECURSIVE UpdateVarsDeref(_, _, _, _)
UpdateVarsDeref(env, name, value, st) ==
  IF name \in DOMAIN st.scopes[env].vars
  THEN [ok |-> TRUE, st |-> [st EXCEPT !.cells[st.scopes[env].vars[name]] = value]]
  ELSE IF st.scopes[env].parent # 0
  THEN UpdateVarsDeref(st.scopes[env].parent, name, value, st)
  ELSE [ok |-> FALSE, st |-> st]

\* Env::get_builtins: own table first, then the parent chain
GetBuiltinsOwn(scopes, env, name) ==
  env # 0 /\ scopes[env].builtins /\ name \in BuiltinNames

RECURSIVE GetBuiltins(_, _, _)
GetBuiltins(scopes, env, name) ==
  IF env = 0 THEN FALSE
  ELSE IF scopes[env].builtins /\ name \in BuiltinNames THEN TRUE
  ELSE GetBuiltins(scopes, scopes[env].parent, name)

\* ------------------------------------------------------- builtin table
\* Numbers are modelled on 32 bits; the i64 extremes that maxArray and
\* minArray use as sentinels are scaled to the 32-bit extremes.
I64_MIN == -2147483647 - 1
I64_MAX == 2147483647

NOk(v) == [k |-> "Ok", v |-> v]
NErr(e) == [k |-> "Err", e |-> e]
NPanic(e) == [k |-> "Panic", p |-> e]

\* `if args.len() != N { return Err("Expected exactly N argument(s)") }`
ArityMismatchTooFew(args, n) == Len(args) < n
ArityMismatch(args, n) == Len(args) # n

ArityMessage(n) ==
  IF n = 1 THEN "Expected exactly 1 argument"
  ELSE "Expected exactly " \o ToString(n) \o " arguments"

\* Rust's `/` and `%` on i64: quotient truncated toward zero, remainder
\* with the sign of the dividend
Abs(n) == IF n < 0 THEN -n ELSE n
TruncDivFloor(a, b) == IF b > 0 THEN a \div b ELSE (-a) \div (-b)
TruncDiv(a, b) ==
  IF (a >= 0) = (b > 0) THEN Abs(a) \div Abs(b) ELSE -(Abs(a) \div Abs(b))
TruncRem(a, b) == a - b * TruncDiv(a, b)

RECURSIVE Power(_, _)
Power(a, b) == IF b = 0 THEN 1 ELSE a * Power(a, b - 1)

RECURSIVE Factorial(_)
Factorial(n) == IF n <= 0 THEN 1 ELSE n * Factorial(n - 1)

AllNumbers(v) == \A i \in 1..Len(v) : v[i].t = "Number"
AllStrings(v) == \A i \in 1..Len(v) : v[i].t = "String"

\* v.sort_by(a.cmp(b)) on Numbers: insertion of each element in order
RECURSIVE InsertSorted(_, _)
InsertSorted(sorted, x) ==
  IF sorted = <<>> THEN <<x>>
  ELSE IF x.n < Head(sorted).n THEN <<x>> \o sorted
  ELSE <<Head(sorted)>> \o InsertSorted(Tail(sorted), x)

RECURSIVE SortNumbers(_)
SortNumbers(v) ==
  IF v = <<>> THEN <<>>
  ELSE InsertSorted(SortNumbers(SubSeq(v, 1, Len(v) - 1)), v[Len(v)])

Reverse(v) == [i \in 1..Len(v) |-> v[Len(v) + 1 - i]]
RemoveAt(v, i) == SubSeq(v, 1, i - 1) \o SubSeq(v, i + 1, Len(v))

RECURSIVE SumNumbers(_)
SumNumbers(v) == IF v = <<>> THEN 0 ELSE Head(v).n + SumNumbers(Tail(v))

RECURSIVE ProductNumbers(_)
ProductNumbers(v) == IF v = <<>> THEN 1 ELSE Head(v).n * ProductNumbers(Tail(v))

\* the running maximum / minimum of maxArray / minArray from its sentinel
RECURSIVE FoldMax(_, _)
FoldMax(v, max) ==
  IF v = <<>> THEN max
  ELSE FoldMax(Tail(v), IF Head(v).n > max THEN Head(v).n ELSE max)

RECURSIVE FoldMin(_, _)
FoldMin(v, min) ==
  IF v = <<>> THEN min
  ELSE FoldMin(Tail(v), IF Head(v).n < min THEN Head(v).n ELSE min)

\* two-Number builtins: add, sub, mul, div, pow, eq, <, >, >=, <=, max, min, mod
Binary(name, a, b) ==
  CASE name = "add" -> NOk(RvNumber(a + b))
    [] name = "sub" -> NOk(RvNumber(a - b))
    [] name = "mul" -> NOk(RvNumber(a * b))
    \* the quotient of the least integer by -1 is not representable: `/`
    \* and `%` panic on it in every build
    [] name = "div" -> IF b = 0 THEN NErr("Division by zero")
                       ELSE IF a = I64_MIN /\ b = -1
                       THEN NPanic("attempt to divide with overflow")
                       ELSE NOk(RvNumber(TruncDiv(a, b)))
    [] name = "mod" -> IF b = 0 THEN NErr("Division by zero")
                       ELSE IF a = I64_MIN /\ b = -1
                       THEN NPanic("attempt to calculate the remainder with overflow")
                       ELSE NOk(RvNumber(TruncRem(a, b)))
    \* a.pow(b as u32): a negative b becomes an exponent above 2^31, which
    \* overflows (a panic of the default build) unless a is 0, 1 or -1
    [] name = "pow" -> IF b >= 0 THEN NOk(RvNumber(Power(a, b)))
                       ELSE IF a \in {0, 1} THEN NOk(RvNumber(a))
                       ELSE IF a = -1 THEN NOk(RvNumber(IF b % 2 = 0 THEN 1 ELSE -1))
                       ELSE NPanic("attempt to multiply with overflow")
    [] name = "eq" -> NOk(RvBool(a = b))
    [] name = "<" -> NOk(RvBool(a < b))
    [] name = ">" -> NOk(RvBool(a > b))
    [] name = ">=" -> NOk(RvBool(a >= b))
    [] name = "<=" -> NOk(RvBool(a <= b))
    [] name = "max" -> NOk(RvNumber(IF a >= b THEN a ELSE b))
    [] name = "min" -> NOk(RvNumber(IF a <= b THEN a ELSE b))

BinaryNames ==
  {"add", "sub", "mul", "div", "mod", "pow", "eq", "<", ">", ">=", "<=", "max", "min"}

\* one-Number builtins: zero?, abs, fact, wait (sleeps, then Bool(false))
UnaryNumber(name, n) ==
  CASE name = "zero?" -> NOk(RvBool(n = 0))
    [] name = "abs" -> NOk(RvNumber(Abs(n)))
    [] name = "fact" ->
         IF n < 0 THEN NErr("Factorial of a negative number is undefined")
         ELSE NOk(RvNumber(Factorial(n)))
    [] name = "wait" -> NOk(RvBool(FALSE))

UnaryNumberNames == {"zero?", "abs", "fact", "wait"}

\* one-array builtins
UnaryVec(name, v) ==
  CASE name = "len" -> NOk(RvNumber(Len(v)))
    [] name = "rev" -> NOk(RvVec(Reverse(v)))
    \* the comparator panics on a non-Number; it runs once the slice has
    \* two elements or more
    [] name = "sort" ->
         IF Len(v) >= 2 /\ ~AllNumbers(v) THEN NPanic("Invalid argument")
         ELSE IF Len(v) < 2 THEN NOk(RvVec(v))
         ELSE NOk(RvVec(SortNumbers(v)))
    [] name = "empty?" -> NOk(RvBool(v = <<>>))
    [] name = "head" -> IF v = <<>> THEN NErr("Array is empty") ELSE NOk(v[1])
    [] name = "tail" -> IF v = <<>> THEN NErr("Array is empty") ELSE NOk(RvVec(Tail(v)))
    [] name = "last" -> IF v = <<>> THEN NErr("Array is empty") ELSE NOk(v[Len(v)])
    [] name = "sum" -> IF AllNumbers(v) THEN NOk(RvNumber(SumNumbers(v)))
                       ELSE NErr("Invalid argument")
    [] name = "product" -> IF AllNumbers(v) THEN NOk(RvNumber(ProductNumbers(v)))
                           ELSE NErr("Invalid argument")
    \* v[mid - 1] with mid = 0 underflows the index of an empty array
    [] name = "median" ->
         IF Len(v) >= 2 /\ ~AllNumbers(v) THEN NPanic("Invalid argument")
         ELSE IF Len(v) = 0 THEN NPanic("attempt to subtract with overflow")
         ELSE IF ~AllNumbers(v) THEN NErr("Invalid argument")
         ELSE LET s == SortNumbers(v)
                  mid == Len(v) \div 2
              IN IF Len(v) % 2 = 0
                 THEN NOk(RvNumber(TruncDiv(s[mid].n + s[mid + 1].n, 2)))
                 ELSE NOk(RvNumber(s[mid + 1].n))
    [] name = "mean" ->
         IF ~AllNumbers(v) THEN NErr("Invalid argument")
         ELSE IF Len(v) = 0 THEN NErr("Array is empty")
         ELSE NOk(RvNumber(TruncDiv(SumNumbers(v), Len(v))))
    [] name = "maxArray" ->
         IF ~AllNumbers(v) THEN NErr("Invalid argument")
         ELSE IF FoldMax(v, I64_MIN) = I64_MIN THEN NErr("Array is empty")
         ELSE NOk(RvNumber(FoldMax(v, I64_MIN)))
    [] name = "minArray" ->
         IF ~AllNumbers(v) THEN NErr("Invalid argument")
         ELSE IF FoldMin(v, I64_MAX) = I64_MAX THEN NErr("Array is empty")
         ELSE NOk(RvNumber(FoldMin(v, I64_MAX)))

UnaryVecNames ==
  {"len", "rev", "sort", "empty?", "head", "tail", "last", "sum", "product",
   "median", "mean", "maxArray", "minArray"}

\* get, set, append, remove
IndexOutOfBoundsFromOne(v, i) == i <= 0 \/ i >= Len(v)
IndexOutOfBounds(v, i) == i < 0 \/ i >= Len(v)

VecAccess(name, args) ==
  CASE name = "get" ->
         IF args[1].t = "Vec" /\ args[2].t = "Number"
         THEN IF IndexOutOfBounds(args[1].v, args[2].n) THEN NErr("Index out of bounds")
              ELSE NOk(args[1].v[args[2].n + 1])
         ELSE NErr("Invalid arguments")
    [] name = "set" ->
         IF args[1].t = "Vec" /\ args[2].t = "Number"
         THEN IF IndexOutOfBounds(args[1].v, args[2].n) THEN NErr("Index out of bounds")
              ELSE NOk(RvVec([args[1].v EXCEPT ![args[2].n + 1] = args[3]]))
         ELSE NErr("Invalid arguments")
    [] name = "append" ->
         IF args[1].t = "Vec" THEN NOk(RvVec(Append(args[1].v, args[2])))
         ELSE NErr("Invalid arguments")
    [] name = "remove" ->
         IF args[1].t = "Vec" /\ args[2].t = "Number"
         THEN IF IndexOutOfBounds(args[1].v, args[2].n) THEN NErr("Index out of bounds")
              ELSE NOk(RvVec(RemoveAt(args[1].v, args[2].n + 1)))
         ELSE NErr("Invalid arguments")

\* the number of arguments each builtin's own check asks for (print,
\* intArray and stringArray have no such check)
CheckedArity(name) ==
  CASE name \in BinaryNames \cup {"get", "append", "remove", "map", "filter"} -> 2
    [] name \in UnaryNumberNames \cup UnaryVecNames -> 1
    [] name \in {"set", "fold"} -> 3

VariadicNames == {"print", "intArray", "stringArray"}

\* the builtins whose closure does not call back into eval_expr
Native(name, args) ==
  IF name \in VariadicNames THEN
    CASE name = "intArray" -> IF AllNumbers(args) THEN NOk(RvVec(args))
                              ELSE NErr("Invalid argument")
      [] name = "stringArray" -> IF AllStrings(args) THEN NOk(RvVec(args))
                                 ELSE NErr("Invalid argument")
      [] name = "print" -> NOk(RvBool(FALSE))
  ELSE IF ArityMismatch(args, CheckedArity(name))
  THEN NErr(ArityMessage(CheckedArity(name)))
  ELSE
    CASE name \in BinaryNames ->
           IF args[1].t = "Number" /\ args[2].t = "Number"
           THEN Binary(name, args[1].n, args[2].n)
           ELSE NErr("Invalid arguments")
      [] name \in UnaryNumberNames ->
           IF args[1].t = "Number" THEN UnaryNumber(name, args[1].n)
           ELSE NErr("Invalid argument")
      [] name \in UnaryVecNames ->
           IF args[1].t = "Vec" THEN UnaryVec(name, args[1].v)
           ELSE NErr("Invalid argument")
      [] name \in {"get", "set", "append", "remove"} -> VecAccess(name, args)

\* print: "{} " for every argument, then a newline
RECURSIVE PrintLine(_)
PrintLine(args) ==
  IF args = <<>> THEN "" ELSE Display(Head(args)) \o " " \o PrintLine(Tail(args))

\* ----------------------------------------------------------- evaluator
\* `cond.to_string() == "true"` (Cond) and the same test in filter
TruthyBoolOnly(val) == val = RvBool(TRUE)
TruthyNotFalse(val) == Display(val) # "false"
Truthy(val) == Display(val) = "true"

\* the key of the builtin lookup in the Application arm: func.to_string(),
\* the rendered text of the evaluated operator
OperatorTextOfName(operator, func) ==
  IF operator.k = "Identifier" THEN operator.name ELSE Display(func)
OperatorText(operator, func) == Display(func)

\* the scope of a Block: Env::new_with_parent(env.clone())
BlockScopeCurrent(env, st) == [env |-> env, st |-> st]
BlockScope(env, st) ==
  LET parent == EnvClone(env, st)
  IN NewWithParent(parent.env, parent.st)

\* the parent of a Lambda's call frame: Env::new_with_parent(lambda_env)
CallParentCaller(lambda_env, env) == env
CallParent(lambda_env, env) == lambda_env

\* history of the assignments and builtin calls of one evaluation
Logged(st, entry) == [st EXCEPT !.log = Append(@, entry)]

RECURSIVE eval_expr(_, _, _)
RECURSIVE apply_function(_, _, _, _)
RECURSIVE EvalArgs(_, _, _, _, _)
RECURSIVE EvalBlock(_, _, _, _, _)
RECURSIVE EvalCond(_, _, _, _)
RECURSIVE BindParams(_, _, _, _, _, _)
RECURSIVE CallFunc(_, _, _)
RECURSIVE MapLoop(_, _, _, _, _)
RECURSIVE FilterLoop(_, _, _, _, _)
RECURSIVE FoldLoop(_, _, _, _, _)

\* args.into_iter().map(|arg| eval_expr(arg, env)).collect::<Result<Vec<_>, _>>()
EvalArgs(args, i, env, st, acc) ==
  IF i > Len(args) THEN Ok(acc, st)
  ELSE LET r == eval_expr(args[i], env, st)
       IN IF r.k # "Ok" THEN r
          ELSE EvalArgs(args, i + 1, env, r.st, Append(acc, r.v))

\* the loop of the Block arm: `?` returns the first error
RECURSIVE EvalBlockContinue(_, _, _, _, _)
EvalBlockContinue(exprs, i, env, st, result) ==
  IF i > Len(exprs) THEN Ok(result, st)
  ELSE LET r == eval_expr(exprs[i], env, st)
       IN IF r.k # "Ok" THEN EvalBlockContinue(exprs, i + 1, env, r.st, result)
          ELSE EvalBlockContinue(exprs, i + 1, env, r.st, r.v)

EvalBlock(exprs, i, env, st, result) ==
  IF i > Len(exprs) THEN Ok(result, st)
  ELSE LET r == eval_expr(exprs[i], env, st)
       IN IF r.k # "Ok" THEN r
          ELSE EvalBlock(exprs, i + 1, env, r.st, r.v)

\* the loop of the Cond arm
EvalCond(clauses, i, env, st) ==
  IF i > Len(clauses) THEN Err("No true clause", st)
  ELSE IF clauses[i].k # "Clause" THEN Err("Invalid clause", st)
  ELSE IF Len(clauses[i].args) # 2
  THEN Err("Each clause must have exactly 2 expressions", st)
  ELSE LET cond == eval_expr(clauses[i].args[1], env, st)
       IN IF cond.k # "Ok" THEN cond
          ELSE IF Truthy(cond.v) THEN eval_expr(clauses[i].args[2], env, cond.st)
          ELSE EvalCond(clauses, i + 1, env, cond.st)

eval_expr(expr, env, st) ==
  CASE expr.k = "Number" -> Ok(RvNumber(expr.n), st)
    [] expr.k = "String" -> Ok(RvString(expr.s), st)
    [] expr.k = "Application" ->
         \* args.remove(0) panics on an empty vector
         IF expr.args = <<>>
         THEN Panic("removal index (is 0) should be < len (is 0)", st)
         ELSE LET func == eval_expr(Head(expr.args), env, st)
              IN IF func.k # "Ok" THEN func
                 ELSE IF GetBuiltins(func.st.scopes, env, OperatorText(Head(expr.args), func.v))
                 THEN apply_function(RvFunc(OperatorText(Head(expr.args), func.v)),
                                     Tail(expr.args), env, func.st)
                 ELSE apply_function(func.v, Tail(expr.args), env, func.st)
    [] expr.k = "Identifier" ->
         LET c == GetVars(st.scopes, env, expr.name)
         IN IF c # 0 THEN Ok(st.cells[c], st) ELSE Ok(RvString(expr.name), st)
    [] expr.k = "Block" ->
         LET block_env == BlockScope(env, st)
         IN EvalBlock(expr.args, 1, block_env.env, block_env.st, RvBool(FALSE))
    [] expr.k = "Cond" -> EvalCond(expr.args, 1, env, st)
    [] expr.k = "Clause" -> Err("Invalid clause not wrapped in a cond", st)
    [] expr.k = "Parameters" -> Err("Invalid parameters not wrapped in a lambda", st)
    [] expr.k = "Lambda" ->
         IF Len(expr.args) # 2 THEN Err("Lambda must have exactly 2 expressions", st)
         ELSE IF expr.args[1].k # "Parameters" THEN Err("Invalid parameters", st)
         ELSE IF \E i \in 1..Len(expr.args[1].args) :
                   expr.args[1].args[i].k # "Identifier"
         THEN Err("Invalid parameter", st)
         ELSE LET param_names == [i \in 1..Len(expr.args[1].args) |->
                                    expr.args[1].args[i].name]
                  captured == EnvClone(env, st)
              IN Ok(RvLambda(param_names, expr.args[2], captured.env), captured.st)
    [] expr.k = "Let" ->
         IF expr.name.k # "Identifier" THEN Err("Invalid variable name", st)
         ELSE LET value == eval_expr(expr.value, env, st)
              IN IF value.k # "Ok" THEN value
                 ELSE eval_expr(expr.body, env,
                                InsertVars(env, expr.name.name, value.v, value.st))
    [] expr.k = "Assignment" ->
         IF expr.name.k # "Identifier" THEN Err("Invalid variable name", st)
         ELSE LET value == eval_expr(expr.value, env, st)
              IN IF value.k # "Ok" THEN value
                 ELSE LET u == UpdateVarsDeref(env, expr.name.name, value.v, value.st)
                          entry == [op |-> "assign", env |-> env,
                                    name |-> expr.name.name, value |-> value.v,
                                    ok |-> u.ok,
                                    cells |-> value.st.cells,
                                    scopes |-> value.st.scopes,
                                    cellsAfter |-> u.st.cells,
                                    scopesAfter |-> u.st.scopes]
                      IN IF u.ok THEN Ok(value.v, Logged(u.st, entry))
                         ELSE Err("Variable not found", Logged(u.st, entry))

\* new_env.insert_vars(param_name, arg_value): a parameter gets a fresh
\* cell in the call's frame
BindParamThrough(new_env, name, value, st) ==
  LET u == UpdateVarsDeref(new_env, name, value, st)
  IN IF u.ok THEN u.st ELSE InsertVars(new_env, name, value, st)
BindParam(new_env, name, value, st) == InsertVars(new_env, name, value, st)

\* the zip loop of the Lambda arm: each argument is evaluated in the
\* caller's env and inserted into the new frame
BindParams(param_names, args, i, env, new_env, st) ==
  IF i > Len(param_names) THEN Ok(RvBool(FALSE), st)
  ELSE LET arg_value == eval_expr(args[i], env, st)
       IN IF arg_value.k # "Ok" THEN arg_value
          ELSE BindParams(param_names, args, i + 1, env, new_env,
                          BindParam(new_env, param_names[i], arg_value.v, arg_value.st))

apply_function(f, args, env, st) ==
  CASE f.t = "Func" ->
         LET arg_values == EvalArgs(args, 1, env, st, <<>>)
         IN IF arg_values.k # "Ok" THEN arg_values
            ELSE CallFunc(f.f, arg_values.v, arg_values.st)
    [] f.t = "Lambda" ->
         IF Len(args) # Len(f.params)
         THEN Err("Expected " \o ToString(Len(f.params)) \o " arguments", st)
         ELSE LET new_env == NewWithParent(CallParent(f.env, env), st)
                  bound == BindParams(f.params, args, 1, env, new_env.env, new_env.st)
              IN IF bound.k # "Ok" THEN bound
                 ELSE eval_expr(f.body, new_env.env, bound.st)
    [] OTHER -> Err("Not a function", st)

\* result.push(..) of map: the element's value goes to the end
MapPushFront(result, value) == <<value>> \o result
MapPush(result, value) == Append(result, value)

\* map: one frame over a clone of the closure's Env for every element,
\* params[0] bound to the element (an index panic without parameters)
MapLoop(f, v, i, st, result) ==
  IF i > Len(v) THEN Ok(RvVec(result), st)
  ELSE IF f.params = <<>>
  THEN Panic("index out of bounds: the len is 0 but the index is 0", st)
  ELSE LET parent == EnvClone(f.env, st)
           new_env == NewWithParent(parent.env, parent.st)
           r == eval_expr(f.body, new_env.env,
                          InsertVars(new_env.env, f.params[1], v[i], new_env.st))
       IN IF r.k # "Ok" THEN r
          ELSE MapLoop(f, v, i + 1, r.st, MapPush(result, r.v))

\* filter's test and push: the element itself is kept when the body's
\* value renders as "true"
FilterKeepValue(result, arg, val) ==
  IF Truthy(val) THEN Append(result, val) ELSE result
FilterKeep(result, arg, val) ==
  IF Truthy(val) THEN Append(result, arg) ELSE result

FilterLoop(f, v, i, st, result) ==
  IF i > Len(v) THEN Ok(RvVec(result), st)
  ELSE IF f.params = <<>>
  THEN Panic("index out of bounds: the len is 0 but the index is 0", st)
  ELSE LET parent == EnvClone(f.env, st)
           new_env == NewWithParent(parent.env, parent.st)
           r == eval_expr(f.body, new_env.env,
                          InsertVars(new_env.env, f.params[1], v[i], new_env.st))
       IN IF r.k # "Ok" THEN r
          ELSE FilterLoop(f, v, i + 1, r.st, FilterKeep(result, v[i], r.v))

\* fold's bindings: params[0] names the accumulator, params[1] the element
FoldBindingsSwapped(params) == [acc |-> params[2], arg |-> params[1]]
FoldBindings(params) == [acc |-> params[1], arg |-> params[2]]

FoldLoop(f, v, i, st, result) ==
  IF i > Len(v) THEN Ok(result, st)
  ELSE IF Len(f.params) < 2
  THEN Panic("index out of bounds", st)
  ELSE LET parent == EnvClone(f.env, st)
           new_env == NewWithParent(parent.env, parent.st)
           st1 == InsertVars(new_env.env, FoldBindings(f.params).acc, result, new_env.st)
           st2 == InsertVars(new_env.env, FoldBindings(f.params).arg, v[i], st1)
           r == eval_expr(f.body, new_env.env, st2)
       IN IF r.k # "Ok" THEN r
          ELSE FoldLoop(f, v, i + 1, r.st, r.v)

\* the cells after a builtin's closure has run: it owns its arguments
\* (clones of what the cells hold, `val.borrow().clone()`) and returns a new
\* value, so no cell is written
AfterNativeInPlace(st, args, r) ==
  IF r.k = "Ok" /\ r.v.t = "Vec" /\ args # <<>> /\ args[1].t = "Vec"
  THEN [st EXCEPT !.cells = [c \in DOMAIN st.cells |->
                               IF st.cells[c] = args[1] THEN r.v ELSE st.cells[c]]]
  ELSE st
AfterNative(st, args, r) == st

\* func(arg_values): the call of a builtin's closure
CallFunc(name, args, st) ==
  LET r ==
    CASE name = "print" ->
           Ok(RvBool(FALSE), [st EXCEPT !.out = Append(@, PrintLine(args))])
      [] name \in {"map", "filter", "fold"} ->
           IF ArityMismatch(args, CheckedArity(name))
           THEN Err(ArityMessage(CheckedArity(name)), st)
           ELSE IF args[1].t # "Lambda" \/ args[Len(args)].t # "Vec"
           THEN Err("Invalid arguments", st)
           ELSE IF name = "map" THEN MapLoop(args[1], args[2].v, 1, st, <<>>)
           ELSE IF name = "filter" THEN FilterLoop(args[1], args[2].v, 1, st, <<>>)
           ELSE FoldLoop(args[1], args[3].v, 1, st, args[2])
      [] OTHER ->
           LET n == Native(name, args)
           IN [n EXCEPT !.k = @] @@ [st |-> AfterNative(st, args, n)]
  IN [r EXCEPT !.st = Logged(@, [op |-> "call", f |-> name, n |-> Len(args),
                                  k |-> r.k,
                                  e |-> IF r.k = "Err" THEN r.e ELSE ""])]

\* ------------------------------------------------------ input programs
MaxVal == 2
MaxArgs == 4
MaxClauses == 3
MaxLen == 3
MaxNum == 3

\* the literal numbers of the input trees, apart from 1, 5 and 10
Vals == {20 + i : i \in 1..MaxVal}

Call(f, args) == ExprApplication(<<ExprIdentifier(f)>> \o args)
Invoke(f, args) == ExprApplication(<<f>> \o args)
Fn(params, body) ==
  ExprLambda(<<ExprParameters([i \in 1..Len(params) |-> ExprIdentifier(params[i])]), body>>)
LetIn(n, value, body) == ExprLet(ExprIdentifier(n), value, body)
Assign(n, value) == ExprAssignment(ExprIdentifier(n), value)

\* a closure reading n, created while n is bound, n assigned afterwards,
\* the closure invoked after the assignment
MutationShapes == 1..7
MutationProgram(shape, n, v0, v) ==
  LET f == Fn(<<>>, ExprIdentifier(n))
      set == Assign(n, ExprNumber(v))
      run == Call("f", <<>>)
  IN CASE shape = 1 ->  \* assignment from the scope of the binding
            LetIn(n, ExprNumber(v0), LetIn("f", f, LetIn("t", set, run)))
       [] shape = 2 ->  \* assignment from a child Block
            LetIn(n, ExprNumber(v0), LetIn("f", f, ExprBlock(<<set, run>>)))
       [] shape = 3 ->  \* assignment from the body of another closure
            LetIn(n, ExprNumber(v0), LetIn("f", f,
              LetIn("g", Fn(<<"w">>, Assign(n, ExprIdentifier("w"))),
                ExprBlock(<<Call("g", <<ExprNumber(v)>>), run>>))))
       [] shape = 4 ->  \* closure created in a Block under the binding
            LetIn(n, ExprNumber(v0),
              ExprBlock(<<LetIn("f", f, ExprBlock(<<set, run>>))>>))
       [] shape = 5 ->  \* two invocations after the assignment
            LetIn(n, ExprNumber(v0), LetIn("f", f,
              ExprBlock(<<set, Call("intArray", <<run, run>>)>>)))
       [] shape = 6 ->  \* closure returned out of the Block of the binding
            LetIn("f", ExprBlock(<<LetIn(n, ExprNumber(v0),
                     Call("append", <<Call("append", <<Call("intArray", <<>>), f>>),
                                      Fn(<<"w">>, Assign(n, ExprIdentifier("w")))>>))>>),
              ExprBlock(<<Invoke(Call("get", <<ExprIdentifier("f"), ExprNumber(1)>>),
                                 <<ExprNumber(v)>>),
                          Invoke(Call("get", <<ExprIdentifier("f"), ExprNumber(0)>>), <<>>)>>))
       [] shape = 7 ->  \* invocation by map
            LetIn(n, ExprNumber(v0),
              LetIn("f", Fn(<<"e">>, ExprIdentifier(n)),
                ExprBlock(<<set, Call("map", <<ExprIdentifier("f"),
                                   Call("intArray", <<ExprNumber(1), ExprNumber(5)>>)>>)>>)))

MutationExpected(shape, v) ==
  IF shape \in {5, 7} THEN RvVec(<<RvNumber(v), RvNumber(v)>>) ELSE RvNumber(v)

MutationPrograms ==
  {MutationProgram(shape, n, v0, v) :
     shape \in MutationShapes, n \in {"x", "y"}, v0 \in Vals, v \in Vals}

\* a Let of a name bound in the enclosing scope, the name read again after
\* the Let has returned; the initial environment binds x = 10 and i = 1
BoundNames == {"x", "i"}
Prior(n) == IF n = "x" THEN 10 ELSE 1

ShadowShapes == 1..5
ShadowProgram(shape, n, v) ==
  LET inner == LetIn(n, ExprNumber(v), ExprIdentifier(n))
  IN CASE shape = 1 ->  \* a later expression of the same Block
            ExprBlock(<<inner, ExprIdentifier(n)>>)
       [] shape = 2 ->  \* a later argument of the same Application
            Call("intArray", <<inner, ExprIdentifier(n)>>)
       [] shape = 3 ->  \* after the Block the Let was in
            ExprBlock(<<ExprBlock(<<inner>>), ExprIdentifier(n)>>)
       [] shape = 4 ->  \* the body of an enclosing Let of another name
            LetIn("t", inner, ExprIdentifier(n))
       [] shape = 5 ->  \* the top level
            inner

ShadowPrograms ==
  {ShadowProgram(shape, n, v) : shape \in ShadowShapes, n \in BoundNames, v \in Vals}

\* a closure created inside a Block or a Let body and invoked after it
CaptureShapes == 1..5
CaptureProgram(shape, v, w) ==
  LET f == Fn(<<>>, ExprIdentifier("y"))
      run == Call("f", <<>>)
  IN CASE shape = 1 ->  \* out of a Block, y unbound at the call
            LetIn("f", ExprBlock(<<LetIn("y", ExprNumber(v), f)>>), run)
       [] shape = 2 ->  \* out of a Let body, y rebound by the caller
            LetIn("f", LetIn("y", ExprNumber(v), f), LetIn("y", ExprNumber(w), run))
       [] shape = 3 ->  \* out of a Block, y bound by the caller
            LetIn("f", ExprBlock(<<LetIn("y", ExprNumber(v), f)>>),
                  LetIn("y", ExprNumber(w), run))
       [] shape = 4 ->  \* two free variables of two nested Blocks
            LetIn("f", ExprBlock(<<LetIn("y", ExprNumber(v),
                         ExprBlock(<<LetIn("z", ExprNumber(w),
                           Fn(<<>>, Call("intArray", <<ExprIdentifier("y"),
                                                      ExprIdentifier("z")>>)))>>))>>),
                  run)
       [] shape = 5 ->  \* a free variable next to a parameter
            LetIn("f", ExprBlock(<<LetIn("y", ExprNumber(v),
                         Fn(<<"a">>, Call("intArray", <<ExprIdentifier("y"),
                                                       ExprIdentifier("a")>>)))>>),
                  Call("f", <<ExprNumber(w)>>))

CaptureExpected(shape, v, w) ==
  IF shape \in {4, 5} THEN RvVec(<<RvNumber(v), RvNumber(w)>>) ELSE RvNumber(v)

CapturePrograms ==
  {CaptureProgram(shape, v, w) : shape \in CaptureShapes, v \in Vals, w \in Vals}

\* a closure whose body reads y, invoked where only the caller binds y
LexicalShapes == 1..4
LexicalProgram(shape, v) ==
  LET f == Fn(<<>>, ExprIdentifier("y"))
      run == Call("f", <<>>)
  IN CASE shape = 1 ->  \* the caller is a Block that binds y
            LetIn("f", f, ExprBlock(<<LetIn("y", ExprNumber(v), run)>>))
       [] shape = 2 ->  \* the caller is a closure with parameter y
            LetIn("f", f, Invoke(Fn(<<"y">>, run), <<ExprNumber(v)>>))
       [] shape = 3 ->  \* the argument is read in the caller, the body is not
            LetIn("f", Fn(<<"a">>, ExprBlock(<<Call("print", <<ExprIdentifier("a")>>),
                                              ExprIdentifier("y")>>)),
                  ExprBlock(<<LetIn("y", ExprNumber(v),
                                    Call("f", <<ExprIdentifier("y")>>))>>))
       [] shape = 4 ->  \* the caller is a map callback with parameter y
            LetIn("f", f, Call("map", <<Fn(<<"y">>, run),
                                        Call("intArray", <<ExprNumber(v)>>)>>))

LexicalExpected(shape) ==
  IF shape = 4 THEN RvVec(<<RvString("y")>>) ELSE RvString("y")

LexicalPrograms == {LexicalProgram(shape, v) : shape \in LexicalShapes, v \in Vals}

\* a closure reading n, n defined (y) or redefined (x) by a Let in the
\* captured scope after the closure was created, the closure invoked then
RebindProgram(n, v) ==
  LetIn("f", Fn(<<>>, ExprIdentifier(n)), LetIn(n, ExprNumber(v), Call("f", <<>>)))

RebindPrograms == {RebindProgram(n, v) : n \in {"x", "y"}, v \in Vals}

\* an Application of a builtin that checks its argument count, with k
\* arguments that all evaluate to a value
FixedArityNames == BuiltinNames \ VariadicNames
ArgChoices ==
  {ExprNumber(1), ExprString("s"), Call("intArray", <<ExprNumber(1)>>),
   Fn(<<"a">>, ExprIdentifier("a"))}
ArityProgram(b, k, a) == Call(b, [i \in 1..k |-> a])

ArityPrograms ==
  {ArityProgram(b, k, a) : b \in FixedArityNames, k \in 0..MaxArgs, a \in ArgChoices}

\* a Cond whose first condition evaluates to a value of each kind
CondCases ==
  <<[e |-> Call("zero?", <<ExprNumber(0)>>), t |-> "Bool", text |-> "true"],
    [e |-> Call("zero?", <<ExprNumber(1)>>), t |-> "Bool", text |-> "false"],
    [e |-> ExprNumber(0), t |-> "Number", text |-> "0"],
    [e |-> ExprNumber(1), t |-> "Number", text |-> "1"],
    [e |-> ExprIdentifier("x"), t |-> "Number", text |-> "10"],
    [e |-> ExprString("true"), t |-> "String", text |-> "true"],
    [e |-> ExprIdentifier("true"), t |-> "String", text |-> "true"],
    [e |-> ExprString("false"), t |-> "String", text |-> "false"],
    [e |-> ExprString("True"), t |-> "String", text |-> "True"],
    [e |-> Call("intArray", <<>>), t |-> "Vec", text |-> "[]"],
    [e |-> Call("stringArray", <<ExprString("true")>>), t |-> "Vec", text |-> "[true]"],
    [e |-> Fn(<<>>, Call("zero?", <<ExprNumber(0)>>)), t |-> "Lambda", text |-> "<lambda>"]>>

TruthinessProgram(c) ==
  ExprCond(<<ExprClause(<<CondCases[c].e, ExprString("then")>>),
             ExprClause(<<Call("zero?", <<ExprNumber(0)>>), ExprString("else")>>)>>)

TruthinessPrograms == {TruthinessProgram(c) : c \in 1..Len(CondCases)}

\* a Cond of up to MaxClauses clauses whose conditions are Bool(true) ("T"),
\* Bool(false) ("F") or a Number ("N"); clause i prints 2i-1 in its
\* condition and 2i in its consequent, which yields 100+i
CondPatterns == UNION {[1..nc -> {"T", "F", "N"}] : nc \in 0..MaxClauses}
CondOrderProgram(p) ==
  ExprCond([i \in 1..Len(p) |->
    ExprClause(<<ExprBlock(<<Call("print", <<ExprNumber(2 * i - 1)>>),
                             CASE p[i] = "T" -> Call("zero?", <<ExprNumber(0)>>)
                               [] p[i] = "F" -> Call("zero?", <<ExprNumber(1)>>)
                               [] p[i] = "N" -> ExprNumber(i)>>),
                 ExprBlock(<<Call("print", <<ExprNumber(2 * i)>>),
                             ExprNumber(100 + i)>>)>>)])

CondOrderPrograms == {CondOrderProgram(p) : p \in CondPatterns}

\* an Assignment to a bound or an unbound name, from the scope of the
\* binding or from a scope below it, with a same-named binding farther out
AssignShapes == 1..4
AssignProgram(shape, n, v0, v) ==
  LET set == Assign(n, ExprNumber(v))
  IN CASE shape = 1 -> set
       [] shape = 2 -> ExprBlock(<<LetIn("t", ExprNumber(v0), set)>>)
       [] shape = 3 ->
            ExprBlock(<<LetIn(n, ExprNumber(v0), ExprBlock(<<set, ExprIdentifier(n)>>))>>)
       [] shape = 4 ->
            ExprBlock(<<LetIn(n, ExprNumber(v0),
                          ExprBlock(<<LetIn("t", set, ExprIdentifier(n))>>)),
                        ExprIdentifier(n)>>)

AssignPrograms ==
  {AssignProgram(shape, n, v0, v) :
     shape \in AssignShapes, n \in {"x", "y"}, v0 \in Vals, v \in Vals}

\* mean, median, maxArray and minArray of an empty array
EmptyAggNames == {"mean", "median", "maxArray", "minArray"}
EmptyAggProgram(f, make) == Call(f, <<Call(make, <<>>)>>)

EmptyAggPrograms ==
  {EmptyAggProgram(f, make) : f \in EmptyAggNames, make \in {"intArray", "stringArray"}}

\* get, set and remove on every array of up to MaxLen Numbers at every
\* index from below 0 to above the length; set stores 7
Arrays == UNION {[1..n -> Vals] : n \in 0..MaxLen}
Indices == (-2)..(MaxLen + 1)
ArrayExpr(a) == Call("intArray", [j \in 1..Len(a) |-> ExprNumber(a[j])])
IndexProgram(op, a, i) ==
  Call(op, IF op = "set" THEN <<ArrayExpr(a), ExprNumber(i), ExprNumber(7)>>
           ELSE <<ArrayExpr(a), ExprNumber(i)>>)

IndexPrograms ==
  {IndexProgram(op, a, i) : op \in {"get", "set", "remove"}, a \in Arrays, i \in Indices}

\* div and mod of every pair of Numbers of -MaxNum..MaxNum, the divisor 0
\* included; the pair form yields [div(a, b), mod(a, b)]
Nums == (-MaxNum)..MaxNum
DivModProgram(op, a, b) ==
  IF op = "pair"
  THEN Call("intArray", <<Call("div", <<ExprNumber(a), ExprNumber(b)>>),
                          Call("mod", <<ExprNumber(a), ExprNumber(b)>>)>>)
  ELSE Call(op, <<ExprNumber(a), ExprNumber(b)>>)

DivModPrograms ==
  {DivModProgram(op, a, b) : op \in {"div", "mod", "pair"}, a \in Nums, b \in Nums}

\* set, append, remove, rev and sort applied to the variable arr, which
\* holds a non-empty array, and arr read afterwards
CopyOps == {"set", "append", "remove", "rev", "sort"}
CopyCall(op, n) ==
  Call(op, CASE op = "set" -> <<ExprIdentifier(n), ExprNumber(0), ExprNumber(7)>>
             [] op = "append" -> <<ExprIdentifier(n), ExprNumber(7)>>
             [] op = "remove" -> <<ExprIdentifier(n), ExprNumber(0)>>
             [] OTHER -> <<ExprIdentifier(n)>>)
NonEmptyArrays == {a \in Arrays : Len(a) >= 1}
CopyShapes == 1..6
CopyProgram(shape, op, a) ==
  LET arr == ExprIdentifier("arr")
      body ==
        CASE shape = 1 ->  \* the variable itself
               ExprBlock(<<CopyCall(op, "arr"), arr>>)
          [] shape = 2 ->  \* the binding captured by a closure
               LetIn("f", Fn(<<>>, arr), ExprBlock(<<CopyCall(op, "arr"), Call("f", <<>>)>>))
          [] shape = 3 ->  \* another variable holding the array
               LetIn("b", arr, ExprBlock(<<CopyCall(op, "arr"), ExprIdentifier("b")>>))
          [] shape = 4 ->  \* the result changed afterwards
               LetIn("b", CopyCall(op, "arr"),
                 LetIn("t", Assign("b", Call("append", <<ExprIdentifier("b"), ExprNumber(7)>>)),
                       arr))
          [] shape = 5 ->  \* all five calls in a row, then op once more
               ExprBlock(<<CopyCall("set", "arr"), CopyCall("append", "arr"),
                           CopyCall("remove", "arr"), CopyCall("rev", "arr"),
                           CopyCall("sort", "arr"), CopyCall(op, "arr"), arr>>)
          [] shape = 6 ->  \* the result of the call
               CopyCall(op, "arr")
  IN LetIn("arr", ArrayExpr(a), body)

VecOf(a) == RvVec([j \in 1..Len(a) |-> RvNumber(a[j])])

CopyPrograms ==
  {CopyProgram(shape, op, a) : shape \in CopyShapes, op \in CopyOps, a \in NonEmptyArrays}

\* Identifier(n) read at the top level and under nested bindings of n, for
\* names of the initial environment, a free name and names of builtins
LookupNames == {"x", "i", "q", "add", "print"}
LookupShapes == 1..8
LookupProgram(shape, n, w1, w2) ==
  LET id == ExprIdentifier(n)
  IN CASE shape = 1 -> id
       [] shape = 2 -> ExprBlock(<<ExprBlock(<<id>>)>>)
       [] shape = 3 -> Invoke(Fn(<<"p">>, id), <<ExprNumber(w1)>>)
       [] shape = 4 -> LetIn(n, ExprNumber(w1), id)
       [] shape = 5 -> LetIn(n, ExprNumber(w1), ExprBlock(<<ExprBlock(<<id>>)>>))
       [] shape = 6 -> LetIn(n, ExprNumber(w1), ExprBlock(<<LetIn(n, ExprNumber(w2), id)>>))
       [] shape = 7 -> LetIn(n, ExprNumber(w1),
                         Invoke(Fn(<<n>>, ExprBlock(<<id>>)), <<ExprNumber(w2)>>))
       [] shape = 8 -> Call("map", <<Fn(<<n>>, id), Call("intArray", <<ExprNumber(w2)>>)>>)

LookupPrograms ==
  {LookupProgram(shape, n, w1, w2) :
     shape \in LookupShapes, n \in LookupNames, w1 \in Vals, w2 \in Vals}

\* an Application whose operator evaluates to a String naming the builtin b,
\* applied to two Numbers inside print, in every scope nesting
OperatorKinds == {"unbound", "literal", "variable", "computed", "shadowed"}
DispatchNames == {"add", "intArray"}
DispatchContexts == 1..7
DispatchProgram(kind, b, ctx, w1, w2) ==
  LET operator ==
        CASE kind = "unbound" -> ExprIdentifier(b)
          [] kind \in {"literal", "shadowed"} -> ExprString(b)
          [] kind = "variable" -> ExprIdentifier("s")
          [] kind = "computed" -> Call("head", <<Call("stringArray", <<ExprString(b)>>)>>)
      show(a) == Call("print", <<ExprApplication(<<operator, a, ExprNumber(w2)>>)>>)
      direct == show(ExprNumber(w1))
      each == show(ExprIdentifier("e"))
      one == Call("append", <<Call("stringArray", <<>>), ExprNumber(w1)>>)
      body ==
        CASE ctx = 1 -> direct
          [] ctx = 2 -> ExprBlock(<<ExprBlock(<<direct>>)>>)
          [] ctx = 3 -> Invoke(Fn(<<>>, direct), <<>>)
          [] ctx = 4 -> Call("map", <<Fn(<<"e">>, each), one>>)
          [] ctx = 5 -> Call("filter", <<Fn(<<"e">>, each), one>>)
          [] ctx = 6 -> Call("fold", <<Fn(<<"acc", "e">>, each), ExprNumber(0), one>>)
          [] ctx = 7 -> Invoke(Fn(<<>>, ExprBlock(<<Invoke(Fn(<<>>, direct), <<>>)>>)), <<>>)
  IN CASE kind = "variable" -> LetIn("s", ExprString(b), body)
       [] kind = "shadowed" -> LetIn(b, ExprNumber(7), body)
       [] OTHER -> body

DispatchPrograms ==
  {DispatchProgram(kind, b, ctx, w1, w2) :
     kind \in OperatorKinds, b \in DispatchNames, ctx \in DispatchContexts,
     w1 \in Vals, w2 \in Vals}

\* a two-parameter callee, builtin or closure, applied to k arguments that
\* each print their position, the e-th one (if any) dividing by zero
OrderCallees == {"builtin", "closure"}
OrderProgram(callee, k, e) ==
  LET operator == IF callee = "builtin" THEN ExprIdentifier("add")
                  ELSE Fn(<<"a", "b">>, ExprNumber(0))
      arg(j) == IF j = e THEN Call("div", <<ExprNumber(1), ExprNumber(0)>>)
                ELSE Call("print", <<ExprNumber(j)>>)
  IN ExprApplication(<<operator>> \o [j \in 1..k |-> arg(j)])

OrderPrograms ==
  {OrderProgram(callee, k, e) : callee \in OrderCallees, k \in 0..MaxArgs, e \in 0..MaxArgs}

\* map of a one-parameter closure, which prints its parameter and adds it
\* to the captured variable k, over an array; the closure is passed as a
\* literal or through a variable, its parameter named e or x
MapParams == {"e", "x"}
MapProgram(p, held, a) ==
  LET f == Fn(<<p>>, ExprBlock(<<Call("print", <<ExprIdentifier(p)>>),
                                 Call("add", <<ExprIdentifier(p), ExprIdentifier("k")>>)>>))
  IN LetIn("k", ExprNumber(100),
       IF held THEN LetIn("f", f, Call("map", <<ExprIdentifier("f"), ArrayExpr(a)>>))
       ELSE Call("map", <<f, ArrayExpr(a)>>))

MapPrograms == {MapProgram(p, held, a) : p \in MapParams, held \in BOOLEAN, a \in Arrays}

\* a list of MaxLen items (expressions of a Block, arguments of a builtin or
\* of a closure, conditions or bodies of Cond clauses, elements of a map,
\* filter or fold) whose e-th item fails with a division by zero, wrapped in
\* a Let, an Assignment, an operator position or a nested call; every other
\* item prints its position and assigns it to x
ErrorContexts == {"block", "args", "closure", "cond", "clause", "map", "filter", "fold"}
ErrorKinds == {"plain", "letvalue", "letbody", "assign", "operator", "deep"}
Probe(j) ==
  ExprBlock(<<Call("print", <<ExprNumber(j)>>), Assign("x", ExprNumber(j))>>)
Fail(kind, failing) ==
  CASE kind = "plain" -> failing
    [] kind = "letvalue" -> LetIn("y", failing, ExprNumber(0))
    [] kind = "letbody" -> LetIn("y", ExprNumber(0), failing)
    [] kind = "assign" -> Assign("x", failing)
    [] kind = "operator" ->
         ExprApplication(<<ExprBlock(<<failing, ExprString("add")>>),
                           ExprNumber(1), ExprNumber(2)>>)
    [] kind = "deep" ->
         ExprBlock(<<Call("intArray",
           <<Call("add", <<ExprNumber(1),
               Invoke(Fn(<<>>, ExprCond(<<ExprClause(<<ExprString("true"), failing>>)>>)),
                      <<>>)>>)>>)>>)
ErrorProgram(ctx, kind, e) ==
  LET zero == Call("div", <<ExprNumber(1), ExprNumber(0)>>)
      items == [j \in 1..MaxLen |-> IF j = e THEN Fail(kind, zero) ELSE Probe(j)]
      el == ExprIdentifier("el")
      body == ExprBlock(<<Fail(kind, Call("div", <<ExprNumber(1), el>>)),
                          Call("print", <<el>>), Assign("x", el)>>)
      array == Call("intArray", [j \in 1..MaxLen |-> ExprNumber(IF j = e THEN 0 ELSE j)])
  IN CASE ctx = "block" -> ExprBlock(items)
       [] ctx = "args" -> Call("intArray", items)
       [] ctx = "closure" ->
            Invoke(Fn([j \in 1..MaxLen |-> "p" \o ToString(j)], Probe(9)), items)
       [] ctx = "cond" ->
            ExprCond([j \in 1..MaxLen |-> ExprClause(<<items[j], Probe(8)>>)])
       [] ctx = "clause" ->
            ExprCond([j \in 1..MaxLen |->
              IF j < e THEN ExprClause(<<items[j], Probe(8)>>)
              ELSE IF j = e THEN ExprClause(<<ExprString("true"), items[j]>>)
              ELSE ExprClause(<<ExprBlock(<<items[j], ExprString("true")>>), Probe(8)>>)])
       [] ctx = "map" -> Call("map", <<Fn(<<"el">>, body), array>>)
       [] ctx = "filter" -> Call("filter", <<Fn(<<"el">>, body), array>>)
       [] ctx = "fold" -> Call("fold", <<Fn(<<"acc", "el">>, body), ExprNumber(0), array>>)

ErrorPrograms ==
  {ErrorProgram(ctx, kind, e) : ctx \in ErrorContexts, kind \in ErrorKinds, e \in 1..MaxLen}

\* Let(n, value, body) whose value refers to n: directly, inside a Block,
\* from the body of a closure, and as the closure's call of n itself
LetValueNames == {"x", "q"}
LetValueShapes == 1..6
LetValueProgram(shape, n, w) ==
  LET id == ExprIdentifier(n)
      countdown ==
        Fn(<<"k">>, ExprCond(<<
          ExprClause(<<Call("zero?", <<ExprIdentifier("k")>>), ExprNumber(77)>>),
          ExprClause(<<ExprString("true"),
                       Call(n, <<Call("sub", <<ExprIdentifier("k"), ExprNumber(1)>>)>>)>>)>>))
  IN CASE shape = 1 -> LetIn(n, id, id)
       [] shape = 2 -> LetIn(n, ExprNumber(w), LetIn(n, ExprBlock(<<id>>), id))
       [] shape = 3 -> LetIn(n, Fn(<<>>, id), Call(n, <<>>))
       [] shape = 4 -> LetIn(n, ExprNumber(w), LetIn(n, Fn(<<>>, id), Call(n, <<>>)))
       [] shape = 5 -> LetIn(n, countdown, Call(n, <<ExprNumber(1)>>))
       [] shape = 6 -> ExprBlock(<<LetIn(n, countdown, Call(n, <<ExprNumber(0)>>))>>)

LetValuePrograms ==
  {LetValueProgram(shape, n, w) : shape \in LetValueShapes, n \in LetValueNames, w \in Vals}

\* filter of a one-parameter closure over an array; the closure prints the
\* element and yields a Bool, a String or a Number that depends on it
FilterBodies == {"greater", "equal", "text", "name", "number", "other"}
Pivot == 20 + MaxVal
FilterProgram(c, a) ==
  LET e == ExprIdentifier("e")
      is == Call("eq", <<e, ExprNumber(Pivot)>>)
      yield ==
        CASE c = "greater" -> Call(">", <<e, ExprNumber(Pivot - 1)>>)
          [] c = "equal" -> is
          [] c = "text" ->  \* String "true" for the pivot, String "false" otherwise
               ExprCond(<<ExprClause(<<is, ExprString("true")>>),
                          ExprClause(<<ExprString("true"), ExprString("false")>>)>>)
          [] c = "name" -> ExprIdentifier("true")
          [] c = "number" -> e
          [] c = "other" -> ExprString("True")
  IN Call("filter", <<Fn(<<"e">>, ExprBlock(<<Call("print", <<e>>), yield>>)), ArrayExpr(a)>>)

\* the body's value for the element el is Bool(true)
YieldsBoolTrue(c, el) ==
  CASE c = "greater" -> el > Pivot - 1
    [] c = "equal" -> el = Pivot
    [] OTHER -> FALSE
\* the body's value for the element el is the String "true"
YieldsTextTrue(c, el) ==
  CASE c = "text" -> el = Pivot
    [] c = "name" -> TRUE
    [] OTHER -> FALSE

FilterPrograms == {FilterProgram(c, a) : c \in FilterBodies, a \in Arrays}

\* fold of the two-parameter closure (acc, e) -> 2 * acc - e, which prints
\* e, from a seed over an array; the closure is a literal or held by f
Seeds == 0..1
FoldProgram(held, s, a) ==
  LET f == Fn(<<"acc", "e">>,
              ExprBlock(<<Call("print", <<ExprIdentifier("e")>>),
                          Call("sub", <<Call("mul", <<ExprIdentifier("acc"), ExprNumber(2)>>),
                                        ExprIdentifier("e")>>)>>))
  IN IF held
     THEN LetIn("f", f, Call("fold", <<ExprIdentifier("f"), ExprNumber(s), ArrayExpr(a)>>))
     ELSE Call("fold", <<f, ExprNumber(s), ArrayExpr(a)>>)

FoldPrograms == {FoldProgram(held, s, a) : held \in BOOLEAN, s \in Seeds, a \in Arrays}

\* map, filter and fold given a closure of np parameters and a non-empty
\* array
HigherOrderNames == {"map", "filter", "fold"}
ClosureArity(op) == IF op = "fold" THEN 2 ELSE 1
HigherOrderProgram(op, np, a) ==
  LET f == Fn([j \in 1..np |-> "p" \o ToString(j)], ExprNumber(0))
  IN IF op = "fold" THEN Call(op, <<f, ExprNumber(0), ArrayExpr(a)>>)
     ELSE Call(op, <<f, ArrayExpr(a)>>)

HigherOrderPrograms ==
  {HigherOrderProgram(op, np, a) :
     op \in HigherOrderNames, np \in 0..MaxArgs, a \in NonEmptyArrays}

\* Blocks: empty, a sequence of prints, a Let inside a nested Block read
\* after it, an Assignment inside nested Blocks read after them
BlockShapes == 1..7
BlockProgram(shape, n, w1, w2) ==
  LET id == ExprIdentifier(n)
      show(j) == Call("print", <<ExprNumber(j)>>)
  IN CASE shape = 1 -> ExprBlock(<<>>)
       [] shape = 2 -> ExprBlock(<<show(1), show(2), ExprBlock(<<show(3)>>), ExprNumber(w1)>>)
       [] shape = 3 ->  \* a Let of n in a Block, n read after the Block
            ExprBlock(<<ExprBlock(<<LetIn(n, ExprNumber(w1), id)>>), id>>)
       [] shape = 4 ->  \* the same under an enclosing Let of n
            LetIn(n, ExprNumber(w1),
                  ExprBlock(<<ExprBlock(<<LetIn(n, ExprNumber(w2), id)>>), id>>))
       [] shape = 5 ->  \* the value of the Block with the Let
            ExprBlock(<<ExprBlock(<<show(1), LetIn(n, ExprNumber(w1), id)>>)>>)
       [] shape = 6 ->  \* an Assignment to x of the outermost scope
            ExprBlock(<<ExprBlock(<<Assign("x", ExprNumber(w1))>>), ExprIdentifier("x")>>)
       [] shape = 7 ->  \* an Assignment three Blocks below the owner of n
            LetIn(n, ExprNumber(w1),
                  ExprBlock(<<ExprBlock(<<ExprBlock(<<Assign(n, ExprNumber(w2))>>)>>), id>>))

BlockPrograms ==
  {BlockProgram(shape, n, w1, w2) :
     shape \in BlockShapes, n \in LookupNames, w1 \in Vals, w2 \in Vals}

\* a user variable named like the builtin b, bound to a closure that yields
\* 77 or to a Number, and Applications of b, of the String b and of another
\* builtin
ShadowedBuiltins == {"add", "max"}
OtherBuiltins == {"sub", "mul"}
UserShapes == 1..8
UserProgram(shape, b, o, w1, w2) ==
  LET user == Fn(<<"a", "c">>, ExprNumber(77))
      args == <<ExprNumber(w1), ExprNumber(w2)>>
      byName == ExprApplication(<<ExprIdentifier(b)>> \o args)
      byText == ExprApplication(<<ExprString(b)>> \o args)
      other == ExprApplication(<<ExprIdentifier(o)>> \o args)
  IN CASE shape = 1 -> LetIn(b, user, byName)
       [] shape = 2 -> LetIn(b, user, byText)
       [] shape = 3 -> LetIn(b, user, other)
       [] shape = 4 -> LetIn(b, ExprNumber(w1), ExprBlock(<<Assign(b, user), byName>>))
       [] shape = 5 -> LetIn(b, ExprNumber(w1), ExprBlock(<<Assign(b, user), byText>>))
       [] shape = 6 -> ExprBlock(<<ExprBlock(<<LetIn(b, user, byName)>>), byName>>)
       [] shape = 7 -> LetIn(b, user, Invoke(Fn(<<>>, ExprBlock(<<byText>>)), <<>>))
       [] shape = 8 -> ExprBlock(<<LetIn(b, user, byName), other>>)

UserPrograms ==
  {UserProgram(shape, b, o, w1, w2) :
     shape \in UserShapes, b \in ShadowedBuiltins, o \in OtherBuiltins,
     w1 \in Vals, w2 \in Vals}

\* trees whose evaluation has no value: an Application of nothing, of a
\* Number, of an unbound name, and sort and median of arrays with an element
\* that is not a Number
TextArray(n) ==
  Call("stringArray", [j \in 1..n |-> ExprString("s" \o ToString(j))])
TotalityPrograms ==
  {ExprApplication(<<>>)}
    \cup {ExprApplication(<<ExprNumber(w)>> \o [j \in 1..k |-> ExprNumber(j)]) :
            w \in Vals, k \in 0..MaxArgs}
    \cup {Call("q", [j \in 1..k |-> ExprNumber(j)]) : k \in 0..MaxArgs}
    \cup {Call(f, <<TextArray(n)>>) : f \in {"sort", "median"}, n \in 1..MaxLen}
    \cup {Call(f, <<Call("append", <<ArrayExpr(a), ExprString("s")>>)>>) :
            f \in {"sort", "median"}, a \in Arrays}

\* maxArray and minArray of arrays of ordinary Numbers and of the smallest
\* and largest representable Numbers
ExtremeArrays == UNION {[1..n -> {I64_MIN, 0, I64_MAX}] : n \in 1..2}
ExtremeProgram(f, a) == Call(f, <<ArrayExpr(a)>>)
ExtremePrograms ==
  {ExtremeProgram(f, a) : f \in {"maxArray", "minArray"}, a \in Arrays \cup ExtremeArrays}

\* closures whose parameter, Assignment or Let uses the name of a caller or
\* captured variable; the call's value and the variable read after the call
FrameShapes == 1..8
FrameProgram(shape, w1, w2) ==
  LET x == ExprIdentifier("x")
      y == ExprIdentifier("y")
      pair(call, after) == Call("intArray", <<call, after>>)
      \* each frame calls g one level down, the deepest assigns its own x
      descend ==
        Fn(<<"g", "x">>,
           ExprBlock(<<ExprCond(<<
             ExprClause(<<Call("zero?", <<x>>), Assign("x", ExprNumber(w2))>>),
             ExprClause(<<ExprString("true"),
                          Call("g", <<ExprIdentifier("g"),
                                      Call("sub", <<x, ExprNumber(1)>>)>>)>>)>>),
             x>>))
  IN CASE shape = 1 ->  \* a parameter named like the caller's x
            pair(Invoke(Fn(<<"x">>, x), <<ExprNumber(w1)>>), x)
       [] shape = 2 ->  \* an Assignment to the parameter
            pair(Invoke(Fn(<<"x">>, ExprBlock(<<Assign("x", ExprNumber(w2)), x>>)),
                        <<ExprNumber(w1)>>), x)
       [] shape = 3 ->  \* an Assignment to the parameter as the whole body
            pair(Invoke(Fn(<<"x">>, Assign("x", ExprNumber(w2))), <<ExprNumber(w1)>>), x)
       [] shape = 4 ->  \* a Let of x in the body
            pair(Invoke(Fn(<<"p">>, LetIn("x", ExprNumber(w2), x)), <<ExprNumber(w1)>>), x)
       [] shape = 5 ->  \* the same closure invoked twice
            LetIn("f", Fn(<<"x">>, Assign("x", Call("add", <<x, ExprNumber(1)>>))),
                  Call("intArray", <<Call("f", <<ExprNumber(w1)>>),
                                     Call("f", <<ExprNumber(w1)>>), x>>))
       [] shape = 6 ->  \* nested invocations of the same closure
            LetIn("f", descend,
                  pair(Call("f", <<ExprIdentifier("f"), ExprNumber(2)>>), x))
       [] shape = 7 ->  \* the parameter named like the captured and caller's y
            LetIn("y", ExprNumber(w1),
              LetIn("f", Fn(<<"y">>, Assign("y", ExprNumber(w2))),
                    pair(Call("f", <<ExprNumber(0)>>), y)))
       [] shape = 8 ->  \* captured y and caller's y are different bindings
            LetIn("f", ExprBlock(<<LetIn("y", ExprNumber(w1),
                                     Fn(<<"y">>, Assign("y", ExprNumber(0))))>>),
              LetIn("y", ExprNumber(w2),
                    Call("intArray", <<Call("f", <<ExprNumber(5)>>), y,
                                       Invoke(Fn(<<>>, y), <<>>)>>)))

FramePrograms == {FrameProgram(shape, w1, w2) : shape \in FrameShapes, w1 \in Vals, w2 \in Vals}

\* a closure that adds 1 to a captured counter at every invocation, invoked
\* directly, as the callback of map, filter and fold, and from inside another
\* callback; the counter is read by the caller afterwards
CounterShapes == 1..5
CounterProgram(shape, a) ==
  LET n == ExprIdentifier("n")
      bump(name) == Assign(name, Call("add", <<ExprIdentifier(name), ExprNumber(1)>>))
      odd == Call("eq", <<Call("mod", <<n, ExprNumber(2)>>), ExprNumber(1)>>)
      body ==
        CASE shape = 1 ->
               LetIn("f", Fn(<<>>, bump("n")),
                 Call("intArray", [j \in 1..Len(a) |-> Call("f", <<>>)] \o <<n>>))
          [] shape = 2 ->
               LetIn("f", Fn(<<"e">>, bump("n")),
                 Call("append", <<Call("map", <<ExprIdentifier("f"), ArrayExpr(a)>>), n>>))
          [] shape = 3 ->
               LetIn("f", Fn(<<"e">>, ExprBlock(<<bump("n"), odd>>)),
                 Call("append", <<Call("filter", <<ExprIdentifier("f"), ArrayExpr(a)>>), n>>))
          [] shape = 4 ->
               LetIn("f", Fn(<<"acc", "e">>,
                             ExprBlock(<<bump("n"), Call("add", <<ExprIdentifier("acc"), n>>)>>)),
                 Call("intArray", <<Call("fold", <<ExprIdentifier("f"), ExprNumber(0),
                                                   ArrayExpr(a)>>), n>>))
          [] shape = 5 ->
               LetIn("f", Fn(<<>>, bump("n")),
                 Call("append", <<Call("map", <<Fn(<<"e">>, Call("f", <<>>)), ArrayExpr(a)>>),
                                  n>>))
  IN LetIn("n", ExprNumber(0), body)

CounterPrograms == {CounterProgram(shape, a) : shape \in CounterShapes, a \in Arrays}

\* an Application without an operator
AbortPrograms == {ExprApplication(<<>>)}

Programs ==
  AbortPrograms \cup MutationPrograms \cup ShadowPrograms \cup CapturePrograms \cup LexicalPrograms
    \cup RebindPrograms \cup ArityPrograms \cup TruthinessPrograms
    \cup CondOrderPrograms \cup AssignPrograms
    \cup EmptyAggPrograms
    \cup IndexPrograms
    \cup DivModPrograms
    \cup CopyPrograms
    \cup LookupPrograms
    \cup DispatchPrograms
    \cup OrderPrograms
    \cup MapPrograms
    \cup ErrorPrograms
    \cup LetValuePrograms
    \cup FilterPrograms
    \cup FoldPrograms
    \cup HigherOrderPrograms
    \cup BlockPrograms
    \cup UserPrograms
    \cup TotalityPrograms
    \cup ExtremePrograms
    \cup FramePrograms
    \cup CounterPrograms

\* ---------------------------------------------------------------- main
VARIABLES pc, expr, state, result, stderr, status

vars == <<pc, expr, state, result, stderr, status>>

NoResult == [k |-> "None"]

\* `let mut env = Env::new();` has run
Init ==
  /\ pc = "start"
  /\ expr = ExprBlock(<<>>)
  /\ state = EnvNew(FALSE)
  /\ result = NoResult
  /\ stderr = <<>>
  /\ status = -1

\* read_to_string and serde_json::from_str(..).expect(..): a tree
ReadInput ==
  /\ pc = "start"
  /\ \E e \in Programs : expr' = e
  /\ pc' = "parsed"
  /\ UNCHANGED <<state, result, stderr, status>>

\* the input is not a well-formed tree: expect panics
ReadMalformed ==
  /\ pc = "start"
  /\ pc' = "exited"
  /\ stderr' = Append(stderr, "JSON was not well-formatted")
  /\ status' = 101
  /\ UNCHANGED <<expr, state, result>>

\* eval_expr(expr, &mut env); a panic inside it ends the process
Evaluate ==
  /\ pc = "parsed"
  /\ LET r == eval_expr(expr, 1, state)
     IN /\ state' = r.st
        /\ IF r.k = "Panic"
           THEN /\ pc' = "exited"
                /\ result' = result
                /\ stderr' = Append(stderr, r.p)
                /\ status' = 101
           ELSE /\ pc' = "evaluated"
                /\ result' = IF r.k = "Ok" THEN NOk(r.v) ELSE NErr(r.e)
                /\ UNCHANGED <<stderr, status>>
  /\ UNCHANGED expr

\* the exit status after the Err arm: main returns normally
ErrorStatus == 0

\* Ok(result) => println!("{}", result)
ReportValue ==
  /\ pc = "evaluated"
  /\ result.k = "Ok"
  /\ state' = [state EXCEPT !.out = Append(@, Display(result.v))]
  /\ status' = 0
  /\ pc' = "exited"
  /\ UNCHANGED <<expr, result, stderr>>

\* Err(e) => eprintln!("Error: {:?}", e)
ReportError ==
  /\ pc = "evaluated"
  /\ result.k = "Err"
  /\ stderr' = Append(stderr, "Error: \"" \o result.e \o "\"")
  /\ status' = ErrorStatus
  /\ pc' = "exited"
  /\ UNCHANGED <<expr, state, result>>

Next == ReadInput \/ ReadMalformed \/ Evaluate \/ ReportValue \/ ReportError

Spec == Init /\ [][Next]_vars

\* ---------------------------------------------------------------- claims
\* C1: a closure created while n is bound reads, in every invocation made
\* after a successful Assignment(n, v) that reaches the same binding, the
\* assigned value v and not the value n had when the closure was created.
C1_MutationVisible ==
  \A shape \in MutationShapes, n \in {"x", "y"}, v0 \in Vals, v \in Vals :
    (pc = "evaluated" /\ expr = MutationProgram(shape, n, v0, v))
      => result = NOk(MutationExpected(shape, v))

C1_Witness ==
  \E shape \in MutationShapes, v0 \in Vals, v \in Vals :
    /\ v0 # v
    /\ pc = "evaluated"
    /\ expr = MutationProgram(shape, "y", v0, v)
    /\ result = NOk(MutationExpected(shape, v))
    /\ \E i \in 1..Len(state.log) :
         state.log[i].op = "assign" /\ state.log[i].ok /\ state.log[i].name = "y"

\* C2: a Let of an already bound name hides the old binding only while its
\* body is evaluated; after the Let has returned the enclosing scope reads
\* the value the name had before.
C2_ShadowRestored ==
  \A shape \in ShadowShapes, n \in BoundNames, v \in Vals :
    (pc = "evaluated" /\ expr = ShadowProgram(shape, n, v))
      => /\ result = NOk(CASE shape \in {1, 3, 4} -> RvNumber(Prior(n))
                           [] shape = 2 -> RvVec(<<RvNumber(v), RvNumber(Prior(n))>>)
                           [] shape = 5 -> RvNumber(v))
         /\ state.cells[GetVars(state.scopes, 1, n)] = RvNumber(Prior(n))

\* C3: a closure created inside a Block or Let body and invoked after that
\* Block or Let has finished resolves its free variables to the bindings in
\* scope where it was created.
C3_CaptureSurvives ==
  \A shape \in CaptureShapes, v \in Vals, w \in Vals :
    (pc = "evaluated" /\ expr = CaptureProgram(shape, v, w))
      => result = NOk(CaptureExpected(shape, v, w))

C3_Witness ==
  \E shape \in CaptureShapes, v \in Vals, w \in Vals :
    /\ v # w
    /\ shape = 3
    /\ pc = "evaluated"
    /\ expr = CaptureProgram(shape, v, w)
    /\ result = NOk(RvNumber(v))

\* C4: the body of an invoked closure runs in a new scope over the captured
\* environment; a name bound only in the caller's environment is not
\* resolved to the caller's binding (it is unbound in the body).
C4_StrictLexical ==
  \A shape \in LexicalShapes, v \in Vals :
    (pc = "evaluated" /\ expr = LexicalProgram(shape, v))
      => /\ result = NOk(LexicalExpected(shape))
         /\ shape = 3 => state.out = <<ToString(v) \o " ">>

C4_Witness ==
  \E shape \in LexicalShapes, v \in Vals :
    /\ pc = "evaluated"
    /\ expr = LexicalProgram(shape, v)
    /\ shape = 3
    /\ result = NOk(RvString("y"))
    /\ state.out = <<ToString(v) \o " ">>

\* what one evaluation shows: the result or error, and the printed lines
Outcome(r) ==
  [k |-> r.k,
   text |-> IF r.k = "Ok" THEN Display(r.v) ELSE IF r.k = "Err" THEN r.e ELSE r.p,
   out |-> r.st.out]

\* C5: a Lambda captures its environment by reference: every program gives,
\* with the Env clones of main.rs, the result it gives with scopes shared
\* by reference; a binding that a later Let defines or redefines in the
\* captured scope is the one the closure resolves when invoked afterwards.
C5_CaptureByReference ==
  pc = "evaluated" =>
    /\ Outcome(eval_expr(expr, 1, EnvNew(FALSE))) = Outcome(eval_expr(expr, 1, EnvNew(TRUE)))
    /\ \A n \in {"x", "y"}, v \in Vals :
         expr = RebindProgram(n, v) => result = NOk(RvNumber(v))

\* the arity each fixed-arity builtin declares
DeclaredArity(b) ==
  IF b \in {"set", "fold"} THEN 3
  ELSE IF b \in {"zero?", "abs", "fact", "wait", "len", "rev", "sort", "empty?",
                 "head", "tail", "last", "sum", "product", "median", "mean",
                 "maxArray", "minArray"} THEN 1
  ELSE 2

ArityError(n) ==
  CASE n = 1 -> NErr("Expected exactly 1 argument")
    [] n = 2 -> NErr("Expected exactly 2 arguments")
    [] n = 3 -> NErr("Expected exactly 3 arguments")

\* C6: a call of a builtin with a fixed declared arity with a different
\* number of arguments fails with the arity-mismatch error of that arity,
\* whatever the arguments' values are.
C6_Arity ==
  /\ \A b \in FixedArityNames, k \in 0..MaxArgs, a \in ArgChoices :
       (pc = "evaluated" /\ expr = ArityProgram(b, k, a) /\ k # DeclaredArity(b))
         => result = ArityError(DeclaredArity(b))
  /\ \A i \in 1..Len(state.log) :
       (state.log[i].op = "call" /\ state.log[i].f \in FixedArityNames
          /\ state.log[i].n # DeclaredArity(state.log[i].f))
         => /\ state.log[i].k = "Err"
            /\ state.log[i].e = ArityError(DeclaredArity(state.log[i].f)).e

C6_Witness ==
  /\ pc = "evaluated"
  /\ expr = ArityProgram("set", 4, Fn(<<"a">>, ExprIdentifier("a")))
  /\ result = NErr("Expected exactly 3 arguments")

\* C7: a Cond clause's consequent is selected only when its condition is
\* the value Bool(true); any other value, a String "true" included, is
\* treated as false without an error.
C7_BoolTrueOnly ==
  \A c \in 1..Len(CondCases) :
    (pc = "evaluated" /\ expr = TruthinessProgram(c))
      => result = NOk(RvString(IF CondCases[c].t = "Bool" /\ CondCases[c].text = "true"
                               THEN "then" ELSE "else"))

\* C7 as amended: the consequent is selected exactly when the condition is
\* Bool(true) or a String whose text is "true"; every other value is
\* treated as false without an error.
C7_RenderedTrue ==
  \A c \in 1..Len(CondCases) :
    (pc = "evaluated" /\ expr = TruthinessProgram(c))
      => /\ result = NOk(RvString(IF CondCases[c].t \in {"Bool", "String"}
                                     /\ CondCases[c].text = "true"
                                  THEN "then" ELSE "else"))
         /\ LET val == eval_expr(CondCases[c].e, 1, EnvNew(FALSE))
            IN val.k = "Ok" /\ val.v.t = CondCases[c].t
                 /\ (val.v.t = "String" => val.v.s = CondCases[c].text)

C7_Witness ==
  /\ pc = "evaluated"
  /\ expr = TruthinessProgram(6)
  /\ CondCases[6].e = ExprString("true")
  /\ result = NOk(RvString("then"))

\* the first clause of a pattern whose condition is Bool(true); 0 if none
FirstTrue(p) ==
  IF \E i \in 1..Len(p) : p[i] = "T"
  THEN CHOOSE i \in 1..Len(p) : p[i] = "T" /\ \A j \in 1..(i - 1) : p[j] # "T"
  ELSE 0

\* C8: the conditions of a Cond are evaluated in order up to the first true
\* one, whose consequent is the result; no later condition or consequent
\* and no earlier consequent is evaluated; without a true condition (the
\* empty Cond included) the Cond fails with the no-matching-clause error.
C8_CondOrder ==
  \A p \in CondPatterns :
    (pc = "evaluated" /\ expr = CondOrderProgram(p))
      => LET f == FirstTrue(p)
         IN IF f = 0
            THEN /\ result = NErr("No true clause")
                 /\ state.out = [j \in 1..Len(p) |-> ToString(2 * j - 1) \o " "]
            ELSE /\ result = NOk(RvNumber(100 + f))
                 /\ state.out = [j \in 1..(f + 1) |->
                                   IF j <= f THEN ToString(2 * j - 1) \o " "
                                   ELSE ToString(2 * f) \o " "]

C8_Witness ==
  /\ pc = "evaluated"
  /\ expr = CondOrderProgram(<<"N", "T", "T">>)
  /\ result = NOk(RvNumber(102))
  /\ state.out = <<"1 ", "3 ", "4 ">>

\* C9: an Assignment changes the value of exactly the binding of the name in
\* the nearest scope owning it, changes and creates no other binding and
\* returns the assigned value; when no scope owns the name it fails with
\* the unknown-variable error and leaves all bindings as they were.
C9_AssignmentFrame ==
  /\ \A i \in 1..Len(state.log) :
       state.log[i].op = "assign" =>
         LET a == state.log[i]
             c == GetVars(a.scopes, a.env, a.name)
         IN /\ a.scopesAfter = a.scopes
            /\ IF c # 0
               THEN a.ok /\ a.cellsAfter = [a.cells EXCEPT ![c] = a.value]
               ELSE ~a.ok /\ a.cellsAfter = a.cells
  /\ \A shape \in AssignShapes, n \in {"x", "y"}, v0 \in Vals, v \in Vals :
       (pc = "evaluated" /\ expr = AssignProgram(shape, n, v0, v))
         => /\ result = CASE shape = 1 /\ n = "x" -> NOk(RvNumber(v))
                          [] shape = 2 /\ n = "x" -> NOk(RvNumber(v))
                          [] shape \in {1, 2} /\ n = "y" -> NErr("Variable not found")
                          [] shape = 3 -> NOk(RvNumber(v))
                          [] shape = 4 -> NOk(RvNumber(v))
            /\ LET c == GetVars(state.scopes, 1, n)
               IN CASE n = "y" -> c = 0
                    [] n = "x" /\ shape \in {1, 2} -> state.cells[c] = RvNumber(v)
                    [] n = "x" /\ shape \in {3, 4} -> state.cells[c] = RvNumber(10)

C9_Witness ==
  \E v0 \in Vals, v \in Vals :
    /\ v0 # v
    /\ pc = "evaluated"
    /\ expr = AssignProgram(3, "x", v0, v)
    /\ result = NOk(RvNumber(v))
    /\ state.cells[GetVars(state.scopes, 1, "x")] = RvNumber(10)
    /\ \E i \in 1..Len(state.log) :
         state.log[i].op = "assign" /\ state.log[i].ok

\* C10: an evaluation error ends the process with a diagnostic on the error
\* stream and a failure status; the status is success only after a value,
\* whose rendering is the last line of standard output.
C10_ProcessOutcome ==
  pc = "exited" =>
    /\ result.k = "Err" => (status # 0 /\ stderr # <<>>)
    /\ status = 0 => (result.k = "Ok" /\ state.out # <<>>
                        /\ state.out[Len(state.out)] = Display(result.v))

\* C11: mean, median, maxArray and minArray of an empty array each return
\* the empty-collection error: the evaluation ends with that error, it does
\* not abort and does not yield a number.
C11_EmptyAggregation ==
  \A f \in EmptyAggNames, make \in {"intArray", "stringArray"} :
    (pc \in {"evaluated", "exited"} /\ expr = EmptyAggProgram(f, make))
      => result = NErr("Array is empty")

\* C12: get, set and remove fail with the index-out-of-range error exactly
\* when the index is below 0 or not below the length; otherwise get returns
\* element i, set an array of the same length that differs only at i, and
\* remove the array without element i, the others in their order.
C12_IndexRange ==
  \A op \in {"get", "set", "remove"}, a \in Arrays, i \in Indices :
    (pc = "evaluated" /\ expr = IndexProgram(op, a, i))
      => IF i < 0 \/ i >= Len(a)
         THEN result = NErr("Index out of bounds")
         ELSE CASE op = "get" -> result = NOk(RvNumber(a[i + 1]))
                [] op = "set" ->
                     /\ result.k = "Ok" /\ result.v.t = "Vec"
                     /\ Len(result.v.v) = Len(a)
                     /\ \A j \in 1..Len(a) :
                          result.v.v[j] = RvNumber(IF j = i + 1 THEN 7 ELSE a[j])
                [] op = "remove" ->
                     /\ result.k = "Ok" /\ result.v.t = "Vec"
                     /\ Len(result.v.v) = Len(a) - 1
                     /\ \A j \in 1..(Len(a) - 1) :
                          result.v.v[j] = RvNumber(IF j <= i THEN a[j] ELSE a[j + 1])

C12_Witness ==
  \E a \in Arrays :
    /\ Len(a) = 3 /\ a[1] # a[2]
    /\ pc = "evaluated"
    /\ expr = IndexProgram("remove", a, 0)
    /\ result = NOk(RvVec(<<RvNumber(a[2]), RvNumber(a[3])>>))

\* the quotient of a by b truncated toward zero, by its defining property
TruncatedQuotient(a, b) ==
  CHOOSE q \in Nums : \E r \in Nums :
    /\ a = q * b + r
    /\ (IF r < 0 THEN -r ELSE r) < (IF b < 0 THEN -b ELSE b)
    /\ r # 0 => ((r > 0) = (a > 0))

\* C13: div(a, 0) and mod(a, 0) return the division-by-zero error; for a
\* divisor b other than 0, div(a, b) is the quotient truncated toward zero
\* and mod(a, b) the remainder: a = q * b + r, |r| < |b|, r has a's sign.
C13_DivMod ==
  \A op \in {"div", "mod", "pair"}, a \in Nums, b \in Nums :
    (pc = "evaluated" /\ expr = DivModProgram(op, a, b))
      => IF b = 0 THEN result = NErr("Division by zero")
         ELSE /\ result.k = "Ok"
              /\ op = "pair" =>
                   LET q == result.v.v[1].n
                       r == result.v.v[2].n
                   IN /\ a = q * b + r
                      /\ (IF r < 0 THEN -r ELSE r) < (IF b < 0 THEN -b ELSE b)
                      /\ r # 0 => ((r > 0) = (a > 0))
              /\ op = "div" => result.v = RvNumber(TruncatedQuotient(a, b))
              /\ op = "mod" => result.v = RvNumber(a - b * TruncatedQuotient(a, b))

C13_Witness ==
  /\ pc = "evaluated"
  /\ expr = DivModProgram("pair", -3, 2)
  /\ result = NOk(RvVec(<<RvNumber(-1), RvNumber(-1)>>))

\* C14: after set, append, remove, rev or sort applied to Identifier(arr),
\* arr and every other variable or captured binding holding that array
\* still hold the original array, after any sequence of such calls; the
\* builtin's result is a separate value.
C14_ArrayCopy ==
  \A shape \in CopyShapes, op \in CopyOps, a \in NonEmptyArrays :
    (pc = "evaluated" /\ expr = CopyProgram(shape, op, a))
      => /\ shape # 6 => result = NOk(VecOf(a))
         /\ state.cells[GetVars(state.scopes, 1, "arr")] = VecOf(a)
         /\ shape = 6 =>
              /\ result.k = "Ok" /\ result.v.t = "Vec"
              /\ op \in {"set", "append"} => \E j \in 1..Len(result.v.v) :
                                               result.v.v[j] = RvNumber(7)
              /\ op = "remove" => Len(result.v.v) = Len(a) - 1
              /\ op = "rev" => \A j \in 1..Len(a) : result.v.v[j] = RvNumber(a[Len(a) + 1 - j])
              /\ op = "sort" => \A j \in 1..(Len(a) - 1) :
                                  result.v.v[j].n <= result.v.v[j + 1].n

C14_Witness ==
  \E a \in NonEmptyArrays :
    /\ Len(a) = 2 /\ a[1] > a[2]
    /\ pc = "evaluated"
    /\ expr = CopyProgram(2, "sort", a)
    /\ result = NOk(VecOf(a))
    /\ \E i \in 1..Len(state.log) :
         state.log[i].op = "call" /\ state.log[i].f = "sort" /\ state.log[i].k = "Ok"

\* the value of name in the initial environment, String(name) when it has none
InitialValue(n) ==
  LET c == GetVars(EnvNew(FALSE).scopes, 1, n)
  IN IF c # 0 THEN EnvNew(FALSE).cells[c] ELSE RvString(n)

\* C15: Identifier(name) evaluates to the value of the innermost binding of
\* name in the scope chain, and to String(name) when there is none; it never
\* fails and never yields an entry of the builtin table.
C15_IdentifierLookup ==
  \A shape \in LookupShapes, n \in LookupNames, w1 \in Vals, w2 \in Vals :
    (pc = "evaluated" /\ expr = LookupProgram(shape, n, w1, w2))
      => result = NOk(CASE shape \in {1, 2, 3} -> InitialValue(n)
                        [] shape \in {4, 5} -> RvNumber(w1)
                        [] shape \in {6, 7} -> RvNumber(w2)
                        [] shape = 8 -> RvVec(<<RvNumber(w2)>>))

C15_Witness ==
  \E w1 \in Vals, w2 \in Vals :
    /\ w1 # w2
    /\ pc = "evaluated"
    /\ expr = LookupProgram(2, "add", w1, w2)
    /\ result = NOk(RvString("add"))

\* C16: in an Application, when the rendered text of the evaluated operator
\* names a builtin, that builtin is applied to the arguments, whether the
\* operator is an unbound Identifier, a String literal, a variable holding
\* the String or a computed String, at top level, in a Block, in a closure
\* body and in a map, filter or fold callback.
C16_RenderedDispatch ==
  \A kind \in OperatorKinds, b \in DispatchNames, ctx \in DispatchContexts,
     w1 \in Vals, w2 \in Vals :
    (pc = "evaluated" /\ expr = DispatchProgram(kind, b, ctx, w1, w2))
      => /\ result.k = "Ok"
         /\ state.out =
              <<Display(Native(b, <<RvNumber(w1), RvNumber(w2)>>).v) \o " ">>

C16_Witness ==
  \E w1 \in Vals, w2 \in Vals :
    /\ pc = "evaluated"
    /\ expr = DispatchProgram("variable", "add", 4, w1, w2)
    /\ state.out = <<ToString(w1 + w2) \o " ">>
    /\ result = NOk(RvVec(<<RvBool(FALSE)>>))

\* C17: in an Application whose operator evaluated, every argument is
\* evaluated left to right, with its output and its errors, before the
\* callee's arity is checked and before it is called, for a builtin and for
\* a closure: all arguments up to the first failing one have printed, and a
\* failing argument's error is the result.
C17_ArgumentsBeforeDispatch ==
  \A callee \in OrderCallees, k \in 0..MaxArgs, e \in 0..MaxArgs :
    (pc = "evaluated" /\ expr = OrderProgram(callee, k, e))
      => /\ state.out = [j \in 1..(IF e \in 1..k THEN e - 1 ELSE k) |-> ToString(j) \o " "]
         /\ e \in 1..k => result = NErr("Division by zero")

\* C18: map(f, a) of a one-parameter closure f returns an array as long as
\* a whose element at every position is the value of f's body with the
\* parameter bound to the element of a at that position, the elements being
\* processed in increasing position; map of the empty array is empty.
C18_MapPositional ==
  \A p \in MapParams, held \in BOOLEAN, a \in Arrays :
    (pc = "evaluated" /\ expr = MapProgram(p, held, a))
      => /\ result.k = "Ok" /\ result.v.t = "Vec"
         /\ Len(result.v.v) = Len(a)
         /\ \A j \in 1..Len(a) : result.v.v[j] = RvNumber(a[j] + 100)
         /\ state.out = [j \in 1..Len(a) |-> ToString(a[j]) \o " "]

C18_Witness ==
  \E a \in Arrays :
    /\ Len(a) = MaxLen /\ a[1] # a[MaxLen]
    /\ pc = "evaluated"
    /\ expr = MapProgram("x", TRUE, a)
    /\ result = NOk(RvVec([j \in 1..Len(a) |-> RvNumber(a[j] + 100)]))
    /\ Len(state.out) = MaxLen

\* C19: when a sub-expression returns an error, eval_expr returns that
\* error for the whole tree and evaluates nothing further: the items before
\* the failing one have printed and assigned, no later Block expression,
\* argument, map/filter/fold element or Cond clause has, and the error is
\* not replaced by a value.
C19_ErrorPropagation ==
  \A ctx \in ErrorContexts, kind \in ErrorKinds, e \in 1..MaxLen :
    (pc = "evaluated" /\ expr = ErrorProgram(ctx, kind, e))
      => /\ result = NErr("Division by zero")
         /\ state.out = [j \in 1..(e - 1) |-> ToString(j) \o " "]
         /\ state.cells[GetVars(state.scopes, 1, "x")] =
              RvNumber(IF e = 1 THEN 10 ELSE e - 1)

C19_Witness ==
  /\ pc = "evaluated"
  /\ expr = ErrorProgram("block", "deep", 2)
  /\ result = NErr("Division by zero")
  /\ state.out = <<"1 ">>

\* C21: in Let(n, value, body) the value is evaluated before n is defined: a
\* reference to n in the value reads the previous binding of n, or
\* String(n) without one, and a closure created in the value does not see
\* the new binding, so its call of n does not reach the closure itself.
C21_LetValueScope ==
  \A shape \in LetValueShapes, n \in LetValueNames, w \in Vals :
    (pc = "evaluated" /\ expr = LetValueProgram(shape, n, w))
      => CASE shape \in {1, 3} -> result = NOk(InitialValue(n))
           [] shape \in {2, 4} -> result = NOk(RvNumber(w))
           [] shape = 5 -> result = NErr("Not a function")
           [] shape = 6 -> result = NOk(RvNumber(77))

C21_Witness ==
  /\ pc = "evaluated"
  /\ expr = LetValueProgram(5, "q", 21)
  /\ result = NErr("Not a function")
  /\ \E i \in 1..Len(state.log) :
       state.log[i].op = "call" /\ state.log[i].f = "zero?" /\ state.log[i].k = "Ok"

\* the elements of a that satisfy Keep, in their order, as an array value
Kept(a, Keep(_)) == VecOf(SelectSeq(a, Keep))

\* C22: filter(f, a) returns exactly the elements of a, in order and
\* unmodified, for which f's body yields the value Bool(true); an element
\* for which it yields anything else, a String "true" included, is dropped.
C22_FilterBoolTrue ==
  \A c \in FilterBodies, a \in Arrays :
    (pc = "evaluated" /\ expr = FilterProgram(c, a))
      => LET Keep(el) == YieldsBoolTrue(c, el)
         IN result = NOk(Kept(a, Keep))

\* C22 as amended: filter(f, a) returns exactly the elements of a, in order
\* and unmodified, for which f's body yields Bool(true) or a String whose
\* text is "true"; every other element is dropped; the body is evaluated
\* for every element in order.
C22_FilterRenderedTrue ==
  \A c \in FilterBodies, a \in Arrays :
    (pc = "evaluated" /\ expr = FilterProgram(c, a))
      => LET Keep(el) == YieldsBoolTrue(c, el) \/ YieldsTextTrue(c, el)
         IN /\ result = NOk(Kept(a, Keep))
            /\ state.out = [j \in 1..Len(a) |-> ToString(a[j]) \o " "]

C22_Witness ==
  \E a \in Arrays :
    /\ Len(a) = 2 /\ a[1] = Pivot /\ a[2] # Pivot
    /\ pc = "evaluated"
    /\ expr = FilterProgram("text", a)
    /\ result = NOk(VecOf(<<Pivot>>))

\* f(...f(f(s, a1), a2)..., an) for f(acc, e) = 2 * acc - e
RECURSIVE LeftFold(_, _)
LeftFold(s, a) ==
  IF a = <<>> THEN s ELSE LeftFold(2 * s - Head(a), Tail(a))

\* C23: fold(f, s, a) of a two-parameter closure equals
\* f(...f(f(s, a1), a2)..., an), the accumulator bound to the first
\* parameter and the element to the second, the elements consumed left to
\* right; over the empty array it returns s without evaluating the body.
C23_FoldLeft ==
  \A held \in BOOLEAN, s \in Seeds, a \in Arrays :
    (pc = "evaluated" /\ expr = FoldProgram(held, s, a))
      => /\ result = NOk(RvNumber(LeftFold(s, a)))
         /\ state.out = [j \in 1..Len(a) |-> ToString(a[j]) \o " "]
         /\ a = <<>> => result = NOk(RvNumber(s)) /\ state.out = <<>>

C23_Witness ==
  \E a \in Arrays :
    /\ Len(a) = MaxLen /\ a[1] # a[2]
    /\ pc = "evaluated"
    /\ expr = FoldProgram(FALSE, 1, a)
    /\ result = NOk(RvNumber(LeftFold(1, a)))
    /\ Len(state.out) = MaxLen

\* C24: map and filter given a closure that does not have exactly 1
\* parameter, and fold given one that does not have exactly 2, with a
\* non-empty array, return an error value: the evaluation neither aborts nor
\* yields a value with only some parameters bound.
C24_ClosureArity ==
  \A op \in HigherOrderNames, np \in 0..MaxArgs, a \in NonEmptyArrays :
    (pc \in {"evaluated", "exited"} /\ expr = HigherOrderProgram(op, np, a)
       /\ np # ClosureArity(op))
      => result.k = "Err"

\* C25: a Block evaluates its expressions in order in a new child scope and
\* returns the last value, Bool(false) when empty; a binding made by a Let
\* inside the Block is not visible after the Block and a same-named binding
\* of the enclosing scope keeps its value; an Assignment inside the Block
\* to a name of an enclosing scope is visible after the Block.
C25_BlockScope ==
  \A shape \in BlockShapes, n \in LookupNames, w1 \in Vals, w2 \in Vals :
    (pc = "evaluated" /\ expr = BlockProgram(shape, n, w1, w2))
      => /\ result = NOk(CASE shape = 1 -> RvBool(FALSE)
                           [] shape = 3 -> InitialValue(n)
                           [] shape \in {2, 4, 5, 6} -> RvNumber(w1)
                           [] shape = 7 -> RvNumber(w2))
         /\ state.out = CASE shape = 2 -> <<"1 ", "2 ", "3 ">>
                          [] shape = 5 -> <<"1 ">>
                          [] OTHER -> <<>>
         /\ shape \in {1, 2, 3, 5} => state.scopes[1] = EnvNew(FALSE).scopes[1]
                                        /\ \A c \in DOMAIN EnvNew(FALSE).cells :
                                             state.cells[c] = EnvNew(FALSE).cells[c]
         /\ shape = 6 => state.cells[GetVars(state.scopes, 1, "x")] = RvNumber(w1)
         /\ shape \in {4, 7} =>
              state.cells[GetVars(state.scopes, 1, n)] =
                RvNumber(IF shape = 4 THEN w1 ELSE w2)

C25_Witness ==
  \E w1 \in Vals, w2 \in Vals :
    /\ w1 # w2
    /\ pc = "evaluated"
    /\ expr = BlockProgram(4, "x", w1, w2)
    /\ result = NOk(RvNumber(w1))
    /\ Len(state.scopes) > 1

\* C26: a user variable named like a builtin, defined by Let or changed by
\* Assignment, leaves the builtin table as it was: a closure bound to the
\* name is invoked when the Identifier is the operator of an Application,
\* the builtin is still reached through its name as text and once the
\* binding is out of scope, and every other builtin keeps dispatching.
C26_UserBindings ==
  \A shape \in UserShapes, b \in ShadowedBuiltins, o \in OtherBuiltins,
     w1 \in Vals, w2 \in Vals :
    (pc = "evaluated" /\ expr = UserProgram(shape, b, o, w1, w2))
      => LET builtin(name) == IF name = "add" THEN w1 + w2
                              ELSE IF name = "sub" THEN w1 - w2
                              ELSE IF name = "mul" THEN w1 * w2
                              ELSE IF w1 > w2 THEN w1 ELSE w2
         IN result = NOk(RvNumber(CASE shape \in {1, 4} -> 77
                                    [] shape \in {2, 5, 6, 7} -> builtin(b)
                                    [] shape \in {3, 8} -> builtin(o)))

C26_Witness ==
  \E w1 \in Vals, w2 \in Vals :
    /\ pc = "evaluated"
    /\ expr = UserProgram(1, "add", "sub", w1, w2)
    /\ result = NOk(RvNumber(77))
    /\ state.cells[GetVars(state.scopes, 1, "add")].t = "Lambda"

\* C27: eval_expr returns a value or an error value for every tree and
\* never aborts: an Application of an empty sequence, an Application of a
\* value that is not callable, and sort or median of an array with an
\* element that is not a Number all end with a result.
C27_NoAbort ==
  (pc = "exited" /\ expr \in TotalityPrograms)
    => status # 101 /\ result.k \in {"Ok", "Err"}

\* C28: maxArray returns the greatest and minArray the least element of
\* every non-empty array of Numbers, an array whose elements all equal the
\* smallest (maxArray) or largest (minArray) representable Number included;
\* the empty-array error is returned only for the empty array.
C28_Extremes ==
  \A f \in {"maxArray", "minArray"}, a \in Arrays \cup ExtremeArrays :
    (pc = "evaluated" /\ expr = ExtremeProgram(f, a))
      => IF a = <<>> THEN result = NErr("Array is empty")
         ELSE LET elems == {a[j] : j \in 1..Len(a)}
                  greatest == CHOOSE m \in elems : \A e \in elems : e <= m
                  least == CHOOSE m \in elems : \A e \in elems : m <= e
              IN result = NOk(RvNumber(IF f = "maxArray" THEN greatest ELSE least))

\* C29: the parameters of a closure invocation are bound in a fresh frame:
\* a parameter named like a captured or caller variable hides it only
\* during the call, an Assignment to a parameter or a Let in the body
\* changes only that frame, and after the call the captured and caller
\* bindings have their earlier values, also across repeated and nested
\* invocations of one closure.
C29_FrameIsolation ==
  \A shape \in FrameShapes, w1 \in Vals, w2 \in Vals :
    (pc = "evaluated" /\ expr = FrameProgram(shape, w1, w2))
      => /\ result = NOk(VecOf(
              CASE shape = 1 -> <<w1, 10>>
                [] shape \in {2, 3, 4} -> <<w2, 10>>
                [] shape = 5 -> <<w1 + 1, w1 + 1, 10>>
                [] shape = 6 -> <<2, 10>>
                [] shape = 7 -> <<w2, w1>>
                [] shape = 8 -> <<0, w2, w2>>))
         /\ state.cells[GetVars(state.scopes, 1, "x")] = RvNumber(10)

C29_Witness ==
  \E w1 \in Vals, w2 \in Vals :
    /\ pc = "evaluated"
    /\ expr = FrameProgram(6, w1, w2)
    /\ result = NOk(VecOf(<<2, 10>>))
    /\ \E i \in 1..Len(state.log) :
         /\ state.log[i].op = "assign" /\ state.log[i].ok
         /\ state.log[i].name = "x" /\ state.log[i].value = RvNumber(w2)

\* C30: an Assignment in a closure body to a variable of the captured
\* environment persists after the body returns: the next direct invocation,
\* the next iteration of the same map, filter or fold and the caller after
\* the call read the assigned value, so a closure counting its invocations
\* counts every one.
C30_CounterPersists ==
  \A shape \in CounterShapes, a \in Arrays :
    (pc = "evaluated" /\ expr = CounterProgram(shape, a))
      => LET len == Len(a)
             upTo == [j \in 1..len |-> j]
             oddPositions == SelectSeq(upTo, LAMBDA j : j % 2 = 1)
         IN /\ result = NOk(VecOf(
                 CASE shape \in {1, 2, 5} -> upTo \o <<len>>
                   [] shape = 3 -> [j \in 1..Len(oddPositions) |-> a[oddPositions[j]]] \o <<len>>
                   [] shape = 4 -> <<(len * (len + 1)) \div 2, len>>))
            /\ state.cells[GetVars(state.scopes, 1, "n")] = RvNumber(len)

C30_Witness ==
  \E a \in Arrays :
    /\ Len(a) = MaxLen
    /\ pc = "evaluated"
    /\ expr = CounterProgram(2, a)
    /\ result = NOk(VecOf([j \in 1..MaxLen |-> j] \o <<MaxLen>>))
    /\ state.cells[GetVars(state.scopes, 1, "n")] = RvNumber(MaxLen)

====
